---- MODULE Spec2Model ----
(***************************************************************************)
(* Authorization-and-membership core of the multi-tenant notes backend.    *)
(* The repository holds two builds of every route file: one over in-memory *)
(* Maps (routes/tenants.ts, and the first files of unnamed/part_017 and    *)
(* unnamed/part_018) and one over Azure SQL (routes/members.ts and the     *)
(* later files of part_017 and part_018).  The variable impl says which     *)
(* build the server runs; it is chosen at start-up and never changes.      *)
(***************************************************************************)
EXTENDS Integers, FiniteSets, Sequences, TLC

\* ---------------------------------------------------------------- bounds
MaxTenants == 2
MaxMembers == 4
MaxInvites == 2
MaxNotes == 1
MaxNow == 2
NumProcs == 2
MaxUsers == 2
MaxRefresh == 2
\* rate limiter: instants of its clock, requests allowed per window, length
\* of the window, the largest count a key's entry is driven to, client keys
MaxDateNow == 4
MaxRequests == 2
WindowMs == 2
MaxCount == 3
\* the refreshes one request of the browser is followed through
MaxRefreshes == 3
Keys == {"ip1", "unknown"}

\* ------------------------------------------------------------- constants
\* invitation lifetime: 7 days, the unit of the model clock
InviteTtl == 1
\* refresh token lifetime: '7d'
RefreshTtl == 1

Users == {"u1", "u2", "u3"}
TenantIds == 1..MaxTenants
MemberIds == 1..MaxMembers
InvIds == 1..MaxInvites
NoteIds == 1..MaxNotes
Procs == 1..NumProcs
UserIds == 1..MaxUsers
RefreshIds == 1..MaxRefresh

NoTenant == 0
NoRole == "none"

OWNER == "owner"
ADMIN == "admin"
EDITOR == "editor"
VIEWER == "viewer"
Role == {OWNER, ADMIN, EDITOR, VIEWER}

RoleHierarchy == [r \in Role |->
    CASE r = VIEWER -> 1 [] r = EDITOR -> 2 [] r = ADMIN -> 3 [] r = OWNER -> 4]

TenantStatus == {"active", "suspended", "deleted"}
InvitationStatus == {"pending", "accepted", "rejected", "expired"}

\* e-mail addresses as the client may type them, and String.toLowerCase
Emails == {"a@x", "b@x", "B@x", "c@x"}
toLowerCase(e) == IF e = "B@x" THEN "b@x" ELSE e

\* registered users (auth routes store the address lower-cased)
UserEmail == [u \in Users |->
    CASE u = "u1" -> "a@x" [] u = "u2" -> "b@x" [] u = "u3" -> "c@x"]

\* tenant names and client-chosen slugs the requests draw from
Titles == {"t1", "t2"}
NoTitle == ""
Contents == {"c1"}
NoContent == ""

Names == {"n1", "n2"}
NoName == ""
UserSlug == [base |-> "acme", rnd |-> 0]
NoSlug == [base |-> "", rnd |-> 0]

VARIABLES
    impl,           \* "mem" | "sql": which build of the routes is running
    tenants,        \* tenant id -> [name, slug, status, ownerId]
    tenantMembers,  \* member id -> [tenantId, userId, role, isSuspended]
    invitations,    \* invitation id (= its token) -> row
    notes,          \* note id -> [tenantId, title, content, createdBy, isDeleted]
    session,        \* user -> claims of the access token the user holds
    nextId,         \* fresh ids (uuidv4 / NEWID()), one counter per table
    now,            \* wall clock
    reqs,           \* SQL requests suspended at an await: proc -> frame
    users,          \* account id -> [email]
    refreshTokens,  \* row id -> [userId, tokenHash, expiresAt, revoked]
    last,           \* the request served last (requests that are refused
                    \* without touching any state leave no trace here)
    requestCounts,  \* rate limiter: client key -> [count, resetTime]
    dateNow,        \* Date.now() as the rate limiter reads it
    reached,        \* client key -> instant -> requests passed on by next()
    localStorage,   \* the browser's accessToken and refreshToken items
    client          \* the axios instance: the request in progress

vars == <<impl, tenants, tenantMembers, invitations, notes, session, nextId,
          now, reqs, users, refreshTokens, last, requestCounts, dateNow, reached,
          localStorage, client>>

\* the tables of the auth routes
auth == <<users, refreshTokens>>

\* the state of the rate limiter
limiter == <<requestCounts, dateNow, reached>>

\* the single-page application in the user's browser
browser == <<localStorage, client>>

\* what stands in front of the routes
edge == <<limiter, browser>>

store == <<tenants, tenantMembers, invitations, notes>>

\* ---------------------------------------------------------------- helpers
Put(f, k, v) == [x \in DOMAIN f \cup {k} |-> IF x = k THEN v ELSE f[x]]
Del(f, k) == [x \in DOMAIN f \ {k} |-> f[x]]
Min(S) == CHOOSE x \in S : \A y \in S : x <= y

Idle == [pc |-> "idle"]

\* what a handler answered: HTTP error class, and which check raised it
Reply(outcome, why) == [outcome |-> outcome, why |-> why]
Ok == Reply("ok", "")

\* the request that was answered last: its route and the answer
Response(op, reply) == [op |-> op, outcome |-> reply.outcome, why |-> reply.why]

\* jwt payload built by generateToken
generateToken(user, tenantId, role) ==
    [tenantId |-> IF tenantId # NoTenant THEN tenantId ELSE user.tenantId,
     role |-> IF role # NoRole THEN role ELSE user.role]

\* req.tenantId as set by the global middleware
extractTenant(param, header, claim) ==
    IF param # NoTenant THEN param
    ELSE IF header # NoTenant THEN header
    ELSE claim

\* app.use(extractTenant) runs before routing: req.params is empty there
ReqTenant(u, header) == extractTenant(NoTenant, header, session[u].tenantId)

\* Array.from(tenantMembers.values()).find(m => ... && !m.isSuspended)
ActiveMemberIds(tm, t, u) ==
    {m \in DOMAIN tm : tm[m].tenantId = t /\ tm[m].userId = u /\ ~tm[m].isSuspended}
AnyMemberIds(tm, t, u) ==
    {m \in DOMAIN tm : tm[m].tenantId = t /\ tm[m].userId = u}

\* Time passes.  The clock is read only to stamp and to test expiresAt, so
\* it is left alone while no invitation is pending.
Tick ==
    /\ now < MaxNow
    /\ \E k \in DOMAIN invitations : invitations[k].status = "pending"
    /\ now' = now + 1
    /\ UNCHANGED <<impl, edge, auth, store, session, nextId, reqs, last>>

\* POST /auth/login: an access token without tenant context
Login(u) ==
    /\ session[u] # [tenantId |-> NoTenant, role |-> NoRole]
    /\ session' = [session EXCEPT ![u] =
            generateToken([tenantId |-> NoTenant, role |-> NoRole], NoTenant, NoRole)]
    /\ last' = Response("login", Ok)
    /\ UNCHANGED <<impl, edge, auth, store, nextId, now, reqs>>

\* ------------------------------------------------ in-memory tenant routes
\* slug || generateSlug(name): the generated slug ends in fresh random hex
FinalSlug(name, slug, id) == IF slug # NoSlug THEN slug ELSE [base |-> name, rnd |-> id]

\* POST /tenants
MemCreateTenantReply(name, slug) ==
    IF name = NoName THEN Reply("BadRequest", "name")
    ELSE IF \E t \in DOMAIN tenants : tenants[t].slug = FinalSlug(name, slug, nextId.tenant)
    THEN Reply("Conflict", "slug")
    ELSE Ok

MemCreateTenant(u, name, slug) ==
    /\ impl = "mem"
    /\ nextId.tenant \in TenantIds /\ nextId.member \in MemberIds
    /\ MemCreateTenantReply(name, slug) = Ok
    /\ LET id == nextId.tenant IN
       /\ tenants' = Put(tenants, id,
              [name |-> name, slug |-> FinalSlug(name, slug, id),
               status |-> "active", ownerId |-> u])
       /\ tenantMembers' = Put(tenantMembers, nextId.member,
              [tenantId |-> id, userId |-> u, role |-> OWNER, isSuspended |-> FALSE])
       /\ nextId' = [nextId EXCEPT !.tenant = @ + 1, !.member = @ + 1]
       /\ session' = [session EXCEPT ![u] = generateToken(session[u], id, OWNER)]
       /\ last' = Response("createTenant", Ok)
    /\ UNCHANGED <<impl, edge, auth, invitations, notes, now, reqs>>

\* GET /tenants/:tenantId
MemGetTenantReply(u, t) ==
    IF t \notin DOMAIN tenants \/ tenants[t].status = "deleted"
    THEN Reply("NotFound", "tenant")
    ELSE IF ActiveMemberIds(tenantMembers, t, u) = {} THEN Reply("NotFound", "member")
    ELSE Ok

\* PUT /tenants/:tenantId
MemUpdateTenantReply(u, t) ==
    IF t \notin DOMAIN tenants \/ tenants[t].status = "deleted"
    THEN Reply("NotFound", "tenant")
    ELSE IF ActiveMemberIds(tenantMembers, t, u) = {}
            \/ tenantMembers[Min(ActiveMemberIds(tenantMembers, t, u))].role
                  \notin {OWNER, ADMIN}
    THEN Reply("Forbidden", "admin")
    ELSE Ok

MemUpdateTenant(u, t, name) ==
    /\ impl = "mem"
    /\ MemUpdateTenantReply(u, t) = Ok
    /\ tenants' = [tenants EXCEPT ![t].name = IF name # NoName THEN name ELSE @]
    /\ last' = Response("updateTenant", Ok)
    /\ UNCHANGED <<impl, edge, auth, tenantMembers, invitations, notes, session, nextId, now, reqs>>

\* DELETE /tenants/:tenantId (soft delete)
MemDeleteTenantReply(u, t) ==
    IF t \notin DOMAIN tenants \/ tenants[t].status = "deleted"
    THEN Reply("NotFound", "tenant")
    ELSE IF tenants[t].ownerId # u THEN Reply("Forbidden", "owner")
    ELSE Ok

MemDeleteTenant(u, t) ==
    /\ impl = "mem"
    /\ MemDeleteTenantReply(u, t) = Ok
    /\ tenants' = [tenants EXCEPT ![t].status = "deleted"]
    /\ last' = Response("deleteTenant", Ok)
    /\ UNCHANGED <<impl, edge, auth, tenantMembers, invitations, notes, session, nextId, now, reqs>>

\* POST /tenants/:tenantId/switch
MemSwitchTenantReply(u, t) ==
    IF t \notin DOMAIN tenants \/ tenants[t].status # "active"
    THEN Reply("NotFound", "tenant")
    ELSE IF ActiveMemberIds(tenantMembers, t, u) = {} THEN Reply("Forbidden", "member")
    ELSE Ok

MemSwitchTenant(u, t) ==
    /\ impl = "mem"
    /\ MemSwitchTenantReply(u, t) = Ok
    /\ LET m == Min(ActiveMemberIds(tenantMembers, t, u)) IN
       /\ session' = [session EXCEPT ![u] =
               generateToken(session[u], t, tenantMembers[m].role)]
       /\ last' = Response("switchTenant", Ok)
    /\ UNCHANGED <<impl, edge, auth, store, nextId, now, reqs>>

\* ------------------------------------------------ in-memory member routes
\* the first row Array.prototype.find meets (Map order is insertion order)
CurrentMembership(t, u) == tenantMembers[Min(ActiveMemberIds(tenantMembers, t, u))]

PendingInvites(t, email) ==
    {k \in DOMAIN invitations : /\ invitations[k].tenantId = t
                                /\ invitations[k].email = email
                                /\ invitations[k].status = "pending"}

\* GET /members
MemListMembersReply(u, h) ==
    LET t == ReqTenant(u, h) IN
    IF t = NoTenant THEN Reply("TenantRequired", "")
    ELSE IF ActiveMemberIds(tenantMembers, t, u) = {} THEN Reply("Forbidden", "member")
    ELSE Ok

\* POST /members/invite
MemInviteReply(u, h, email, role) ==
    LET t == ReqTenant(u, h) IN
    IF t = NoTenant THEN Reply("TenantRequired", "")
    ELSE IF role \notin {ADMIN, EDITOR, VIEWER} THEN Reply("BadRequest", "role")
    ELSE IF ActiveMemberIds(tenantMembers, t, u) = {} THEN Reply("Forbidden", "member")
    ELSE IF CurrentMembership(t, u).role \notin {OWNER, ADMIN} THEN Reply("Forbidden", "admin")
    ELSE IF PendingInvites(t, toLowerCase(email)) # {} THEN Reply("BadRequest", "pending")
    ELSE Ok

MemInvite(u, h, email, role) ==
    /\ impl = "mem"
    /\ nextId.inv \in InvIds
    /\ MemInviteReply(u, h, email, role) = Ok
    /\ invitations' = Put(invitations, nextId.inv,
           [tenantId |-> ReqTenant(u, h), email |-> toLowerCase(email), role |-> role,
            status |-> "pending", invitedBy |-> u, expiresAt |-> now + InviteTtl])
    /\ nextId' = [nextId EXCEPT !.inv = @ + 1]
    /\ last' = Response("invite", Ok)
    /\ UNCHANGED <<impl, edge, auth, tenants, tenantMembers, notes, session, now, reqs>>

\* the accept checks without the status guard
MemAcceptReplyAnyStatus(u, k) ==
    IF k \notin DOMAIN invitations THEN Reply("NotFound", "invitation")
    ELSE IF now > invitations[k].expiresAt THEN Reply("BadRequest", "expired")
    ELSE IF toLowerCase(UserEmail[u]) # invitations[k].email THEN Reply("Forbidden", "email")
    ELSE IF AnyMemberIds(tenantMembers, invitations[k].tenantId, u) # {}
    THEN Reply("BadRequest", "already_member")
    ELSE Ok

\* POST /members/invitations/:token/accept
MemAcceptReply(u, k) ==
    IF k \notin DOMAIN invitations THEN Reply("NotFound", "invitation")
    ELSE IF invitations[k].status # "pending" THEN Reply("BadRequest", "not_pending")
    ELSE IF now > invitations[k].expiresAt THEN Reply("BadRequest", "expired")
    ELSE IF toLowerCase(UserEmail[u]) # invitations[k].email THEN Reply("Forbidden", "email")
    ELSE IF AnyMemberIds(tenantMembers, invitations[k].tenantId, u) # {}
    THEN Reply("BadRequest", "already_member")
    ELSE Ok

MemAccept(u, k) ==
    /\ impl = "mem"
    /\ LET reply == MemAcceptReply(u, k) IN
       \/ /\ reply = Ok
          /\ nextId.member \in MemberIds
          /\ tenantMembers' = Put(tenantMembers, nextId.member,
                 [tenantId |-> invitations[k].tenantId, userId |-> u,
                  role |-> invitations[k].role, isSuspended |-> FALSE])
          /\ invitations' = [invitations EXCEPT ![k].status = "accepted"]
          /\ nextId' = [nextId EXCEPT !.member = @ + 1]
          /\ last' = Response("accept", Ok)
       \/ /\ reply = Reply("BadRequest", "expired")
          /\ invitations' = [invitations EXCEPT ![k].status = "expired"]
          /\ last' = Response("accept", reply)
          /\ UNCHANGED <<tenantMembers, nextId>>
    /\ UNCHANGED <<impl, edge, auth, tenants, notes, session, now, reqs>>

\* PUT /members/:memberId/role
MemUpdateRoleReply(u, h, m, role) ==
    LET t == ReqTenant(u, h) IN
    IF t = NoTenant THEN Reply("TenantRequired", "")
    ELSE IF role \notin Role THEN Reply("BadRequest", "role")
    ELSE IF m \notin DOMAIN tenantMembers \/ tenantMembers[m].tenantId # t
    THEN Reply("NotFound", "member")
    ELSE IF ActiveMemberIds(tenantMembers, t, u) = {} THEN Reply("Forbidden", "member")
    ELSE IF tenantMembers[m].role = OWNER THEN Reply("Forbidden", "target_owner")
    ELSE IF role = OWNER THEN Reply("Forbidden", "promote_owner")
    ELSE IF RoleHierarchy[CurrentMembership(t, u).role] <= RoleHierarchy[tenantMembers[m].role]
    THEN Reply("Forbidden", "rank")
    ELSE IF /\ RoleHierarchy[role] >= RoleHierarchy[CurrentMembership(t, u).role]
            /\ CurrentMembership(t, u).role # OWNER
    THEN Reply("Forbidden", "promote_above")
    ELSE Ok

MemUpdateRole(u, h, m, role) ==
    /\ impl = "mem"
    /\ MemUpdateRoleReply(u, h, m, role) = Ok
    /\ tenantMembers' = [tenantMembers EXCEPT ![m].role = role]
    /\ last' = Response("updateRole", Ok)
    /\ UNCHANGED <<impl, edge, auth, tenants, invitations, notes, session, nextId, now, reqs>>

\* the removal checks without the self-removal path
MemRemoveReplyAdminOnly(u, h, m) ==
    LET t == ReqTenant(u, h) IN
    IF t = NoTenant THEN Reply("TenantRequired", "")
    ELSE IF m \notin DOMAIN tenantMembers \/ tenantMembers[m].tenantId # t
    THEN Reply("NotFound", "member")
    ELSE IF tenantMembers[m].role = OWNER THEN Reply("Forbidden", "target_owner")
    ELSE IF ActiveMemberIds(tenantMembers, t, u) = {} THEN Reply("Forbidden", "member")
    ELSE IF CurrentMembership(t, u).role \notin {OWNER, ADMIN} THEN Reply("Forbidden", "admin")
    ELSE IF RoleHierarchy[CurrentMembership(t, u).role] <= RoleHierarchy[tenantMembers[m].role]
    THEN Reply("Forbidden", "rank")
    ELSE Ok

\* DELETE /members/:memberId
MemRemoveReply(u, h, m) ==
    LET t == ReqTenant(u, h) IN
    IF t = NoTenant THEN Reply("TenantRequired", "")
    ELSE IF m \notin DOMAIN tenantMembers \/ tenantMembers[m].tenantId # t
    THEN Reply("NotFound", "member")
    ELSE IF tenantMembers[m].role = OWNER THEN Reply("Forbidden", "target_owner")
    ELSE IF ActiveMemberIds(tenantMembers, t, u) = {} THEN Reply("Forbidden", "member")
    ELSE LET isSelf == tenantMembers[m].userId = u
             isAdmin == CurrentMembership(t, u).role \in {OWNER, ADMIN}
         IN IF ~isSelf /\ ~isAdmin THEN Reply("Forbidden", "admin")
            ELSE IF /\ ~isSelf
                    /\ RoleHierarchy[CurrentMembership(t, u).role]
                          <= RoleHierarchy[tenantMembers[m].role]
            THEN Reply("Forbidden", "rank")
            ELSE Ok

MemRemove(u, h, m) ==
    /\ impl = "mem"
    /\ MemRemoveReply(u, h, m) = Ok
    /\ tenantMembers' = Del(tenantMembers, m)
    /\ last' = Response("remove", Ok)
    /\ UNCHANGED <<impl, edge, auth, tenants, invitations, notes, session, nextId, now, reqs>>

\* PUT /members/:memberId/suspend
MemSuspendReply(u, h, m) ==
    LET t == ReqTenant(u, h) IN
    IF t = NoTenant THEN Reply("TenantRequired", "")
    ELSE IF m \notin DOMAIN tenantMembers \/ tenantMembers[m].tenantId # t
    THEN Reply("NotFound", "member")
    ELSE IF tenantMembers[m].role = OWNER THEN Reply("Forbidden", "target_owner")
    ELSE IF tenantMembers[m].userId = u THEN Reply("Forbidden", "self")
    ELSE IF \/ ActiveMemberIds(tenantMembers, t, u) = {}
            \/ CurrentMembership(t, u).role \notin {OWNER, ADMIN}
    THEN Reply("Forbidden", "admin")
    ELSE IF RoleHierarchy[CurrentMembership(t, u).role] <= RoleHierarchy[tenantMembers[m].role]
    THEN Reply("Forbidden", "rank")
    ELSE Ok

MemSuspendToggle(u, h, m) ==
    /\ impl = "mem"
    /\ MemSuspendReply(u, h, m) = Ok
    /\ tenantMembers' = [tenantMembers EXCEPT ![m].isSuspended = ~@]
    /\ last' = Response("suspend", Ok)
    /\ UNCHANGED <<impl, edge, auth, tenants, invitations, notes, session, nextId, now, reqs>>

MemSuspend(u, h, m) ==
    /\ impl = "mem"
    /\ MemSuspendReply(u, h, m) = Ok
    /\ tenantMembers' = [tenantMembers EXCEPT ![m].isSuspended = TRUE]
    /\ last' = Response("suspend", Ok)
    /\ UNCHANGED <<impl, edge, auth, tenants, invitations, notes, session, nextId, now, reqs>>

\* ------------------------------------------------------- rbac middleware
\* requireMinRole refusing the required level itself
requireMinRoleAbove(u, minRole) ==
    IF session[u].role = NoRole THEN Reply("Forbidden", "NO_TENANT_ACCESS")
    ELSE IF RoleHierarchy[session[u].role] <= RoleHierarchy[minRole]
    THEN Reply("Forbidden", "INSUFFICIENT_ROLE")
    ELSE Ok

\* requireMinRole(minRole): decided on the role claim of the token alone
requireMinRole(u, minRole) ==
    IF session[u].role = NoRole THEN Reply("Forbidden", "NO_TENANT_ACCESS")
    ELSE IF RoleHierarchy[session[u].role] < RoleHierarchy[minRole]
    THEN Reply("Forbidden", "INSUFFICIENT_ROLE")
    ELSE Ok

\* hasMinRole(userRole, minRole)
hasMinRole(userRole, minRole) ==
    IF userRole = NoRole THEN FALSE
    ELSE RoleHierarchy[userRole] >= RoleHierarchy[minRole]

\* requireRole(...allowedRoles); requireOwner = requireRole(Role.OWNER)
requireRole(u, allowedRoles) ==
    IF session[u].role = NoRole THEN Reply("Forbidden", "NO_TENANT_ACCESS")
    ELSE IF session[u].role \notin allowedRoles THEN Reply("Forbidden", "INSUFFICIENT_ROLE")
    ELSE Ok

\* ------------------------------------------------------ the SQL database
\* The constraints are those of the schema the repository ships; the columns
\* are taken to be the ones the queries name.
\* CONSTRAINT uq_tenant_user UNIQUE (tenant_id, user_id)
no_tenant_user_constraint(tm, t, u) == TRUE

uq_tenant_user(tm, t, u) == AnyMemberIds(tm, t, u) = {}

\* tenant_id ... REFERENCES tenants(id)
fk_tenant(t) == t \in DOMAIN tenants

\* slug NVARCHAR(100) NOT NULL UNIQUE
uq_slug(slug) == \A t \in DOMAIN tenants : tenants[t].slug # slug

\* ON DELETE CASCADE of tenant_members, invitations and notes
Cascade(f, t) == [x \in {y \in DOMAIN f : f[y].tenantId # t} |-> f[x]]

Quiet == \A p \in Procs : reqs[p] = Idle

\* ---------------------------------------------------- SQL member routes
\* POST /members/invite
SqlInviteReply(u, h, email, role) ==
    LET t == ReqTenant(u, h) IN
    IF t = NoTenant THEN Reply("TenantRequired", "")
    ELSE IF requireMinRole(u, ADMIN) # Ok THEN requireMinRole(u, ADMIN)
    ELSE IF role \notin {VIEWER, EDITOR, ADMIN} THEN Reply("BadRequest", "role")
    ELSE IF \E v \in Users : /\ UserEmail[v] = toLowerCase(email)
                             /\ AnyMemberIds(tenantMembers, t, v) # {}
    THEN Reply("BadRequest", "already_member")
    ELSE IF ~fk_tenant(t) THEN Reply("InternalError", "fk_tenant")
    ELSE Ok

SqlInvite(u, h, email, role) ==
    /\ impl = "sql"
    /\ nextId.inv \in InvIds
    /\ SqlInviteReply(u, h, email, role) = Ok
    /\ invitations' = Put(invitations, nextId.inv,
           [tenantId |-> ReqTenant(u, h), email |-> toLowerCase(email), role |-> role,
            status |-> "pending", invitedBy |-> u, expiresAt |-> now + InviteTtl])
    /\ nextId' = [nextId EXCEPT !.inv = @ + 1]
    /\ last' = Response("invite", Ok)
    /\ UNCHANGED <<impl, edge, auth, tenants, tenantMembers, notes, session, now, reqs>>

\* POST /members/invite/:token/accept, one step per awaited query
\* 1: SELECT * FROM invitations WHERE token AND status = 'pending' AND expires_at > now
SqlAcceptLookupAnyStatus(k) ==
    IF /\ k \in DOMAIN invitations
       /\ invitations[k].expiresAt > now
    THEN Ok ELSE Reply("NotFound", "invitation")

SqlAcceptLookup(k) ==
    IF /\ k \in DOMAIN invitations
       /\ invitations[k].status = "pending"
       /\ invitations[k].expiresAt > now
    THEN Ok ELSE Reply("NotFound", "invitation")

SqlAcceptBegin(p, u, k) ==
    /\ impl = "sql"
    /\ reqs[p] = Idle
    /\ SqlAcceptLookup(k) = Ok
    /\ reqs' = [reqs EXCEPT ![p] =
           [pc |-> "accept_email", user |-> u, id |-> k, row |-> invitations[k]]]
    /\ UNCHANGED last
    /\ UNCHANGED <<impl, edge, auth, store, session, nextId, now>>

\* 2 without the comparison: every user passes
SqlAcceptEmailUnchecked(p) ==
    /\ reqs[p].pc = "accept_email"
    /\ reqs' = [reqs EXCEPT ![p].pc = "accept_member"]
    /\ UNCHANGED last
    /\ UNCHANGED <<impl, edge, auth, store, session, nextId, now>>

\* 2: SELECT email FROM users; compare with the invitation's
SqlAcceptEmail(p) ==
    /\ reqs[p].pc = "accept_email"
    /\ IF toLowerCase(UserEmail[reqs[p].user]) # toLowerCase(reqs[p].row.email)
       THEN /\ reqs' = [reqs EXCEPT ![p] = Idle]
            /\ last' = Response("accept", Reply("Forbidden", "email"))
       ELSE /\ reqs' = [reqs EXCEPT ![p].pc = "accept_member"]
            /\ UNCHANGED last
    /\ UNCHANGED <<impl, edge, auth, store, session, nextId, now>>

\* 3: SELECT id FROM tenant_members WHERE tenant_id AND user_id
SqlAcceptMember(p) ==
    /\ reqs[p].pc = "accept_member"
    /\ IF AnyMemberIds(tenantMembers, reqs[p].row.tenantId, reqs[p].user) # {}
       THEN /\ reqs' = [reqs EXCEPT ![p] = Idle]
            /\ last' = Response("accept", Reply("BadRequest", "already_member"))
       ELSE /\ reqs' = [reqs EXCEPT ![p].pc = "accept_insert"]
            /\ UNCHANGED last
    /\ UNCHANGED <<impl, edge, auth, store, session, nextId, now>>

\* 4: INSERT INTO tenant_members
SqlAcceptInsert(p) ==
    /\ reqs[p].pc = "accept_insert"
    /\ IF /\ uq_tenant_user(tenantMembers, reqs[p].row.tenantId, reqs[p].user)
          /\ fk_tenant(reqs[p].row.tenantId)
       THEN /\ nextId.member \in MemberIds
            /\ tenantMembers' = Put(tenantMembers, nextId.member,
                   [tenantId |-> reqs[p].row.tenantId, userId |-> reqs[p].user,
                    role |-> reqs[p].row.role, isSuspended |-> FALSE])
            /\ nextId' = [nextId EXCEPT !.member = @ + 1]
            /\ reqs' = [reqs EXCEPT ![p].pc = "accept_update"]
            /\ UNCHANGED last
       ELSE /\ reqs' = [reqs EXCEPT ![p] = Idle]
            /\ last' = Response("accept", Reply("InternalError", "constraint"))
            /\ UNCHANGED <<tenantMembers, nextId>>
    /\ UNCHANGED <<impl, edge, auth, tenants, invitations, notes, session, now>>

\* 5 with WHERE tenant_id in place of WHERE id: every invitation of the tenant
SqlAcceptUpdateWholeTenant(p) ==
    /\ reqs[p].pc = "accept_update"
    /\ invitations' = [k \in DOMAIN invitations |->
           IF invitations[k].tenantId = reqs[p].row.tenantId
           THEN [invitations[k] EXCEPT !.status = "accepted"]
           ELSE invitations[k]]
    /\ reqs' = [reqs EXCEPT ![p] = Idle]
    /\ last' = Response("accept", Ok)
    /\ UNCHANGED <<impl, edge, auth, tenants, tenantMembers, notes, session, nextId, now>>

\* 5: UPDATE invitations SET status = 'accepted' WHERE id
SqlAcceptUpdate(p) ==
    /\ reqs[p].pc = "accept_update"
    /\ invitations' = IF reqs[p].id \in DOMAIN invitations
                      THEN [invitations EXCEPT ![reqs[p].id].status = "accepted"]
                      ELSE invitations
    /\ reqs' = [reqs EXCEPT ![p] = Idle]
    /\ last' = Response("accept", Ok)
    /\ UNCHANGED <<impl, edge, auth, tenants, tenantMembers, notes, session, nextId, now>>

\* the answer of the whole handler when no other request interleaves
SqlAcceptReply(u, k) ==
    IF SqlAcceptLookup(k) # Ok THEN SqlAcceptLookup(k)
    ELSE IF toLowerCase(UserEmail[u]) # toLowerCase(invitations[k].email)
    THEN Reply("Forbidden", "email")
    ELSE IF AnyMemberIds(tenantMembers, invitations[k].tenantId, u) # {}
    THEN Reply("BadRequest", "already_member")
    ELSE Ok

\* PUT /members/:memberId
SqlUpdateRoleReply(u, h, m, role) ==
    LET t == ReqTenant(u, h) IN
    IF t = NoTenant THEN Reply("TenantRequired", "")
    ELSE IF requireMinRole(u, ADMIN) # Ok THEN requireMinRole(u, ADMIN)
    ELSE IF role \notin {VIEWER, EDITOR, ADMIN} THEN Reply("BadRequest", "role")
    ELSE IF m \notin DOMAIN tenantMembers \/ tenantMembers[m].tenantId # t
    THEN Reply("NotFound", "member")
    ELSE IF tenantMembers[m].role = OWNER THEN Reply("Forbidden", "target_owner")
    ELSE IF tenantMembers[m].userId = u THEN Reply("Forbidden", "self")
    ELSE Ok

SqlUpdateRole(u, h, m, role) ==
    /\ impl = "sql"
    /\ SqlUpdateRoleReply(u, h, m, role) = Ok
    /\ tenantMembers' = [tenantMembers EXCEPT ![m].role = role]
    /\ last' = Response("updateRole", Ok)
    /\ UNCHANGED <<impl, edge, auth, tenants, invitations, notes, session, nextId, now, reqs>>

\* DELETE /members/:memberId selecting the member by id alone
SqlRemoveReplyAnyTenant(u, h, m) ==
    LET t == ReqTenant(u, h) IN
    IF t = NoTenant THEN Reply("TenantRequired", "")
    ELSE IF requireMinRole(u, ADMIN) # Ok THEN requireMinRole(u, ADMIN)
    ELSE IF m \notin DOMAIN tenantMembers THEN Reply("NotFound", "member")
    ELSE IF tenantMembers[m].role = OWNER THEN Reply("Forbidden", "target_owner")
    ELSE IF tenantMembers[m].userId = u THEN Reply("Forbidden", "self")
    ELSE Ok

\* DELETE /members/:memberId
SqlRemoveReply(u, h, m) ==
    LET t == ReqTenant(u, h) IN
    IF t = NoTenant THEN Reply("TenantRequired", "")
    ELSE IF requireMinRole(u, ADMIN) # Ok THEN requireMinRole(u, ADMIN)
    ELSE IF m \notin DOMAIN tenantMembers \/ tenantMembers[m].tenantId # t
    THEN Reply("NotFound", "member")
    ELSE IF tenantMembers[m].role = OWNER THEN Reply("Forbidden", "target_owner")
    ELSE IF tenantMembers[m].userId = u THEN Reply("Forbidden", "self")
    ELSE Ok

SqlRemove(u, h, m) ==
    /\ impl = "sql"
    /\ SqlRemoveReply(u, h, m) = Ok
    /\ tenantMembers' = Del(tenantMembers, m)
    /\ last' = Response("remove", Ok)
    /\ UNCHANGED <<impl, edge, auth, tenants, invitations, notes, session, nextId, now, reqs>>

\* POST /members/leave
SqlLeaveReply(u, h) ==
    LET t == ReqTenant(u, h) IN
    IF t = NoTenant THEN Reply("TenantRequired", "")
    ELSE IF AnyMemberIds(tenantMembers, t, u) = {} THEN Reply("NotFound", "membership")
    ELSE IF tenantMembers[Min(AnyMemberIds(tenantMembers, t, u))].role = OWNER
    THEN Reply("Forbidden", "owner")
    ELSE Ok

SqlLeave(u, h) ==
    /\ impl = "sql"
    /\ SqlLeaveReply(u, h) = Ok
    /\ tenantMembers' = Del(tenantMembers, Min(AnyMemberIds(tenantMembers, ReqTenant(u, h), u)))
    /\ last' = Response("leave", Ok)
    /\ UNCHANGED <<impl, edge, auth, tenants, invitations, notes, session, nextId, now, reqs>>

\* ---------------------------------------------------- SQL tenant routes
\* POST /tenants, one step per awaited query
\* 1: SELECT id FROM tenants WHERE slug
SqlCreateTenantReply(name, slug) ==
    IF name = NoName THEN Reply("BadRequest", "name")
    ELSE IF ~uq_slug(FinalSlug(name, slug, nextId.tenant)) THEN Reply("Conflict", "slug")
    ELSE Ok

SqlCreateBegin(p, u, name, slug) ==
    /\ impl = "sql"
    /\ reqs[p] = Idle
    /\ nextId.tenant \in TenantIds
    /\ SqlCreateTenantReply(name, slug) = Ok
    /\ reqs' = [reqs EXCEPT ![p] =
           [pc |-> "create_tenant", user |-> u, id |-> NoTenant,
            row |-> [name |-> name, slug |-> FinalSlug(name, slug, nextId.tenant),
                     status |-> "active", ownerId |-> u]]]
    /\ UNCHANGED last
    /\ UNCHANGED <<impl, edge, auth, store, session, nextId, now>>

\* 2: INSERT INTO tenants
SqlCreateInsertTenant(p) ==
    /\ reqs[p].pc = "create_tenant"
    /\ IF uq_slug(reqs[p].row.slug)
       THEN /\ nextId.tenant \in TenantIds
            /\ tenants' = Put(tenants, nextId.tenant, reqs[p].row)
            /\ nextId' = [nextId EXCEPT !.tenant = @ + 1]
            /\ reqs' = [reqs EXCEPT ![p].pc = "create_member", ![p].id = nextId.tenant]
            /\ UNCHANGED last
       ELSE /\ reqs' = [reqs EXCEPT ![p] = Idle]
            /\ last' = Response("createTenant", Reply("InternalError", "constraint"))
            /\ UNCHANGED <<tenants, nextId>>
    /\ UNCHANGED <<impl, edge, auth, tenantMembers, invitations, notes, session, now>>

\* 3: INSERT INTO tenant_members (the creator as owner), then the new token
SqlCreateInsertOwner(p) ==
    /\ reqs[p].pc = "create_member"
    /\ IF /\ uq_tenant_user(tenantMembers, reqs[p].id, reqs[p].user)
          /\ fk_tenant(reqs[p].id)
       THEN /\ nextId.member \in MemberIds
            /\ tenantMembers' = Put(tenantMembers, nextId.member,
                   [tenantId |-> reqs[p].id, userId |-> reqs[p].user,
                    role |-> OWNER, isSuspended |-> FALSE])
            /\ nextId' = [nextId EXCEPT !.member = @ + 1]
            /\ session' = [session EXCEPT ![reqs[p].user] =
                   generateToken(session[reqs[p].user], reqs[p].id, OWNER)]
            /\ last' = Response("createTenant", Ok)
       ELSE /\ last' = Response("createTenant", Reply("InternalError", "constraint"))
            /\ UNCHANGED <<tenantMembers, nextId, session>>
    /\ reqs' = [reqs EXCEPT ![p] = Idle]
    /\ UNCHANGED <<impl, edge, auth, tenants, invitations, notes, now>>

\* PUT /tenants/:tenantId
SqlUpdateTenantReply(u, t, name) ==
    IF requireMinRole(u, ADMIN) # Ok THEN requireMinRole(u, ADMIN)
    ELSE IF name = NoName THEN Reply("BadRequest", "fields")
    ELSE IF t \notin DOMAIN tenants THEN Reply("InternalError", "no_row")
    ELSE Ok

SqlUpdateTenant(u, t, name) ==
    /\ impl = "sql"
    /\ SqlUpdateTenantReply(u, t, name) = Ok
    /\ tenants' = [tenants EXCEPT ![t].name = name]
    /\ last' = Response("updateTenant", Ok)
    /\ UNCHANGED <<impl, edge, auth, tenantMembers, invitations, notes, session, nextId, now, reqs>>

\* DELETE /tenants/:tenantId
SqlDeleteTenantReply(u, t) == requireRole(u, {OWNER})

SqlDeleteTenant(u, t) ==
    /\ impl = "sql"
    /\ SqlDeleteTenantReply(u, t) = Ok
    /\ t \in DOMAIN tenants
    /\ tenants' = Del(tenants, t)
    /\ tenantMembers' = Cascade(tenantMembers, t)
    /\ invitations' = Cascade(invitations, t)
    /\ notes' = Cascade(notes, t)
    /\ last' = Response("deleteTenant", Ok)
    /\ UNCHANGED <<impl, edge, auth, session, nextId, now, reqs>>

\* the switch taking the presented token's word for its own tenant
SqlSwitchTenantReplyByClaim(u, t) ==
    IF session[u].tenantId = t /\ session[u].role # NoRole THEN Ok
    ELSE IF ActiveMemberIds(tenantMembers, t, u) = {} THEN Reply("NotFound", "membership")
    ELSE Ok

\* POST /tenants/:tenantId/switch
SqlSwitchTenantReply(u, t) ==
    IF ActiveMemberIds(tenantMembers, t, u) = {} THEN Reply("NotFound", "membership")
    ELSE Ok

SqlSwitchTenant(u, t) ==
    /\ impl = "sql"
    /\ SqlSwitchTenantReply(u, t) = Ok
    /\ LET m == Min(ActiveMemberIds(tenantMembers, t, u)) IN
       /\ session' = [session EXCEPT ![u] =
               generateToken(session[u], t, tenantMembers[m].role)]
       /\ last' = Response("switchTenant", Ok)
    /\ UNCHANGED <<impl, edge, auth, store, nextId, now, reqs>>

\* a suspended SQL request runs its next query
SqlAcceptStep(p) ==
    \/ SqlAcceptEmail(p)
    \/ SqlAcceptMember(p)
    \/ SqlAcceptInsert(p)
    \/ SqlAcceptUpdate(p)

SqlCreateStep(p) ==
    \/ SqlCreateInsertTenant(p)
    \/ SqlCreateInsertOwner(p)

\* ... or the query rejects (connection lost, timeout): asyncHandler passes
\* the error on, the request ends 500 and what was written stays written
SqlFail(p) ==
    /\ impl = "sql"
    /\ reqs[p] # Idle
    /\ reqs' = [reqs EXCEPT ![p] = Idle]
    /\ last' = Response(
           IF reqs[p].pc \in {"create_tenant", "create_member"} THEN "createTenant"
           ELSE IF reqs[p].pc \in {"register_user", "register_token"} THEN "register"
           ELSE "accept",
           Reply("InternalError", "store"))
    /\ UNCHANGED <<impl, edge, auth, store, session, nextId, now>>

\* ------------------------------------------------ in-memory note routes
\* checkTenantAccess without the test of isSuspended
checkTenantAccessAnyMember(t, u) ==
    IF AnyMemberIds(tenantMembers, t, u) = {} THEN NoRole
    ELSE tenantMembers[Min(AnyMemberIds(tenantMembers, t, u))].role

\* checkTenantAccess(tenantId, userId): the role of the active membership
checkTenantAccess(t, u) ==
    IF ActiveMemberIds(tenantMembers, t, u) = {} THEN NoRole
    ELSE CurrentMembership(t, u).role

\* the access gate every attachments route starts with (GET, POST,
\* GET /:attachmentId, DELETE /:attachmentId)
MemAttachmentsReply(u, h) ==
    IF ReqTenant(u, h) = NoTenant THEN Reply("TenantRequired", "")
    ELSE IF checkTenantAccess(ReqTenant(u, h), u) = NoRole THEN Reply("Forbidden", "access")
    ELSE Ok

\* GET /notes
MemListNotesReply(u, h) ==
    IF ReqTenant(u, h) = NoTenant THEN Reply("TenantRequired", "")
    ELSE IF checkTenantAccess(ReqTenant(u, h), u) = NoRole THEN Reply("Forbidden", "access")
    ELSE Ok

MemListNotes(u, h) ==
    /\ impl = "mem"
    /\ MemListNotesReply(u, h) = Ok
    /\ last' = Response("listNotes", Ok)
    /\ UNCHANGED <<impl, edge, auth, store, session, nextId, now, reqs>>

\* GET /notes/:noteId
MemGetNoteReply(u, h, n) ==
    LET t == ReqTenant(u, h) IN
    IF t = NoTenant THEN Reply("TenantRequired", "")
    ELSE IF checkTenantAccess(t, u) = NoRole THEN Reply("Forbidden", "access")
    ELSE IF n \notin DOMAIN notes \/ notes[n].tenantId # t THEN Reply("NotFound", "note")
    ELSE IF notes[n].isDeleted THEN Reply("NotFound", "deleted")
    ELSE Ok

MemGetNote(u, h, n) ==
    /\ impl = "mem"
    /\ MemGetNoteReply(u, h, n) = Ok
    /\ last' = Response("getNote", Ok)
    /\ UNCHANGED <<impl, edge, auth, store, session, nextId, now, reqs>>

\* POST /notes
MemCreateNoteReply(u, h, title) ==
    LET t == ReqTenant(u, h) IN
    IF t = NoTenant THEN Reply("TenantRequired", "")
    ELSE IF checkTenantAccess(t, u) = NoRole THEN Reply("Forbidden", "access")
    ELSE IF checkTenantAccess(t, u) = VIEWER THEN Reply("Forbidden", "viewer")
    ELSE IF title = NoTitle THEN Reply("BadRequest", "title")
    ELSE Ok

MemCreateNote(u, h, title) ==
    /\ impl = "mem"
    /\ nextId.note \in NoteIds
    /\ MemCreateNoteReply(u, h, title) = Ok
    /\ notes' = Put(notes, nextId.note,
           [tenantId |-> ReqTenant(u, h), title |-> title, content |-> NoContent,
            createdBy |-> u, isDeleted |-> FALSE])
    /\ nextId' = [nextId EXCEPT !.note = @ + 1]
    /\ last' = Response("createNote", Ok)
    /\ UNCHANGED <<impl, edge, auth, tenants, tenantMembers, invitations, session, now, reqs>>

\* PUT /notes/:noteId
MemUpdateNoteReply(u, h, n, title) ==
    LET t == ReqTenant(u, h) IN
    IF t = NoTenant THEN Reply("TenantRequired", "")
    ELSE IF checkTenantAccess(t, u) = NoRole THEN Reply("Forbidden", "access")
    ELSE IF checkTenantAccess(t, u) = VIEWER THEN Reply("Forbidden", "viewer")
    ELSE IF n \notin DOMAIN notes \/ notes[n].tenantId # t \/ notes[n].isDeleted
    THEN Reply("NotFound", "note")
    ELSE IF title = NoTitle THEN Reply("BadRequest", "title")
    ELSE Ok

MemUpdateNote(u, h, n, title) ==
    /\ impl = "mem"
    /\ MemUpdateNoteReply(u, h, n, title) = Ok
    /\ notes' = [notes EXCEPT ![n].title = title]
    /\ last' = Response("updateNote", Ok)
    /\ UNCHANGED <<impl, edge, auth, tenants, tenantMembers, invitations, session, nextId, now, reqs>>

\* PATCH /notes/:noteId/content
MemPatchNoteReply(u, h, n) ==
    LET t == ReqTenant(u, h) IN
    IF t = NoTenant THEN Reply("TenantRequired", "")
    ELSE IF checkTenantAccess(t, u) \in {NoRole, VIEWER} THEN Reply("Forbidden", "edit")
    ELSE IF n \notin DOMAIN notes \/ notes[n].tenantId # t \/ notes[n].isDeleted
    THEN Reply("NotFound", "note")
    ELSE Ok

MemPatchNote(u, h, n, content) ==
    /\ impl = "mem"
    /\ MemPatchNoteReply(u, h, n) = Ok
    /\ notes' = [notes EXCEPT ![n].content = content]
    /\ last' = Response("patchNote", Ok)
    /\ UNCHANGED <<impl, edge, auth, tenants, tenantMembers, invitations, session, nextId, now, reqs>>

\* DELETE /notes/:noteId
MemDeleteNoteReply(u, h, n) ==
    LET t == ReqTenant(u, h)
        role == checkTenantAccess(t, u) IN
    IF t = NoTenant THEN Reply("TenantRequired", "")
    ELSE IF role = NoRole THEN Reply("Forbidden", "access")
    ELSE IF n \notin DOMAIN notes \/ notes[n].tenantId # t THEN Reply("NotFound", "note")
    ELSE IF role = VIEWER THEN Reply("Forbidden", "viewer")
    ELSE IF notes[n].createdBy # u /\ role \notin {OWNER, ADMIN} THEN Reply("Forbidden", "creator")
    ELSE Ok

MemDeleteNote(u, h, n, permanent) ==
    /\ impl = "mem"
    /\ MemDeleteNoteReply(u, h, n) = Ok
    /\ notes' = IF permanent /\ checkTenantAccess(ReqTenant(u, h), u) \in {OWNER, ADMIN}
                THEN Del(notes, n)
                ELSE [notes EXCEPT ![n].isDeleted = TRUE]
    /\ last' = Response("deleteNote", Ok)
    /\ UNCHANGED <<impl, edge, auth, tenants, tenantMembers, invitations, session, nextId, now, reqs>>

\* POST /notes/:noteId/restore
MemRestoreNoteReply(u, h, n) ==
    LET t == ReqTenant(u, h) IN
    IF t = NoTenant THEN Reply("TenantRequired", "")
    ELSE IF checkTenantAccess(t, u) \notin {OWNER, ADMIN} THEN Reply("Forbidden", "admin")
    ELSE IF n \notin DOMAIN notes \/ notes[n].tenantId # t THEN Reply("NotFound", "note")
    ELSE IF ~notes[n].isDeleted THEN Reply("BadRequest", "not_deleted")
    ELSE Ok

MemRestoreNote(u, h, n) ==
    /\ impl = "mem"
    /\ MemRestoreNoteReply(u, h, n) = Ok
    /\ notes' = [notes EXCEPT ![n].isDeleted = FALSE]
    /\ last' = Response("restoreNote", Ok)
    /\ UNCHANGED <<impl, edge, auth, tenants, tenantMembers, invitations, session, nextId, now, reqs>>

\* ------------------------------------------------------- SQL note routes
\* GET /notes: authenticate, requireTenant, then the query
SqlListNotesReply(u, h) ==
    IF ReqTenant(u, h) = NoTenant THEN Reply("TenantRequired", "") ELSE Ok

SqlListNotes(u, h) ==
    /\ impl = "sql"
    /\ SqlListNotesReply(u, h) = Ok
    /\ last' = Response("listNotes", Ok)
    /\ UNCHANGED <<impl, edge, auth, store, session, nextId, now, reqs>>

\* GET /notes/:noteId
SqlGetNoteReply(u, h, n) ==
    LET t == ReqTenant(u, h) IN
    IF t = NoTenant THEN Reply("TenantRequired", "")
    ELSE IF n \notin DOMAIN notes \/ notes[n].tenantId # t \/ notes[n].isDeleted
    THEN Reply("NotFound", "note")
    ELSE Ok

SqlGetNote(u, h, n) ==
    /\ impl = "sql"
    /\ SqlGetNoteReply(u, h, n) = Ok
    /\ last' = Response("getNote", Ok)
    /\ UNCHANGED <<impl, edge, auth, store, session, nextId, now, reqs>>

\* POST /notes
SqlCreateNoteReply(u, h, title) ==
    LET t == ReqTenant(u, h) IN
    IF t = NoTenant THEN Reply("TenantRequired", "")
    ELSE IF requireMinRole(u, EDITOR) # Ok THEN requireMinRole(u, EDITOR)
    ELSE IF title = NoTitle THEN Reply("BadRequest", "title")
    ELSE IF ~fk_tenant(t) THEN Reply("InternalError", "fk_tenant")
    ELSE Ok

SqlCreateNote(u, h, title) ==
    /\ impl = "sql"
    /\ nextId.note \in NoteIds
    /\ SqlCreateNoteReply(u, h, title) = Ok
    /\ notes' = Put(notes, nextId.note,
           [tenantId |-> ReqTenant(u, h), title |-> title, content |-> NoContent,
            createdBy |-> u, isDeleted |-> FALSE])
    /\ nextId' = [nextId EXCEPT !.note = @ + 1]
    /\ last' = Response("createNote", Ok)
    /\ UNCHANGED <<impl, edge, auth, tenants, tenantMembers, invitations, session, now, reqs>>

\* PUT /notes/:noteId
SqlUpdateNoteReply(u, h, n, title) ==
    LET t == ReqTenant(u, h) IN
    IF t = NoTenant THEN Reply("TenantRequired", "")
    ELSE IF requireMinRole(u, EDITOR) # Ok THEN requireMinRole(u, EDITOR)
    ELSE IF n \notin DOMAIN notes \/ notes[n].tenantId # t \/ notes[n].isDeleted
    THEN Reply("NotFound", "note")
    ELSE IF title = NoTitle THEN Reply("BadRequest", "title")
    ELSE Ok

SqlUpdateNote(u, h, n, title) ==
    /\ impl = "sql"
    /\ SqlUpdateNoteReply(u, h, n, title) = Ok
    /\ notes' = [notes EXCEPT ![n].title = title]
    /\ last' = Response("updateNote", Ok)
    /\ UNCHANGED <<impl, edge, auth, tenants, tenantMembers, invitations, session, nextId, now, reqs>>

\* DELETE /notes/:noteId (soft delete)
SqlDeleteNoteReply(u, h, n) ==
    LET t == ReqTenant(u, h) IN
    IF t = NoTenant THEN Reply("TenantRequired", "")
    ELSE IF requireMinRole(u, EDITOR) # Ok THEN requireMinRole(u, EDITOR)
    ELSE IF n \notin DOMAIN notes \/ notes[n].tenantId # t \/ notes[n].isDeleted
    THEN Reply("NotFound", "note")
    ELSE Ok

SqlDeleteNote(u, h, n) ==
    /\ impl = "sql"
    /\ SqlDeleteNoteReply(u, h, n) = Ok
    /\ notes' = [notes EXCEPT ![n].isDeleted = TRUE]
    /\ last' = Response("deleteNote", Ok)
    /\ UNCHANGED <<impl, edge, auth, tenants, tenantMembers, invitations, session, nextId, now, reqs>>

\* GET /notes: the notes of the page, before paging; ?includeDeleted=... is
\* read from the query string
MemListed(u, h, includeDeleted) ==
    {n \in DOMAIN notes : /\ notes[n].tenantId = ReqTenant(u, h)
                          /\ (includeDeleted \/ ~notes[n].isDeleted)}

\* WHERE n.tenant_id = @tenant_id AND n.is_deleted = 0
SqlListed(u, h) ==
    {n \in DOMAIN notes : notes[n].tenantId = ReqTenant(u, h) /\ ~notes[n].isDeleted}

\* POST /notes/:noteId/restore: the SQL notes router has no such route
SqlRestoreNoteReply(u, h, n) == Reply("NotFound", "route")

\* ------------------------------------------------------------ auth: jwt
\* A token as it arrives in a request.  sig tells how it was made: signed
\* with config.jwt.secret, signed with another key, or not a JWT at all.
Secret == "secret"
NoUser == 0
Malformed == [sub |-> NoUser, tenantId |-> NoTenant, role |-> NoRole,
              exp |-> 0, sig |-> "malformed", type |-> "none"]
Claims == {[tenantId |-> NoTenant, role |-> NoRole], [tenantId |-> 1, role |-> OWNER]}
\* the payload generateToken signs has no type; generateRefreshToken signs
\* {sub, type: 'refresh'} with the same secret
AccessTokens ==
    {[sub |-> a, tenantId |-> c.tenantId, role |-> c.role, exp |-> e, sig |-> g,
      type |-> "none"] :
        a \in UserIds, c \in Claims, e \in 1..MaxNow, g \in {Secret, "forged"}}
RefreshJwts ==
    {[sub |-> a, tenantId |-> NoTenant, role |-> NoRole, exp |-> e, sig |-> Secret,
      type |-> "refresh"] : a \in UserIds, e \in 1..MaxNow}
Tokens == AccessTokens \cup RefreshJwts \cup {Malformed}

\* the Authorization header: absent, another scheme, or "Bearer <token>"
Authorizations ==
    {[scheme |-> "none", token |-> Malformed],
     [scheme |-> "Basic", token |-> Malformed]}
        \cup {[scheme |-> "Bearer", token |-> t] : t \in Tokens}

\* jwt.verify(token, secret): the signature is checked before exp
jwtVerify(token) ==
    IF token.sig # Secret THEN "JsonWebTokenError"
    ELSE IF now >= token.exp THEN "TokenExpiredError"
    ELSE "decoded"

\* authenticate accepting a token whose exp has passed
authenticateIgnoringExp(h) ==
    IF h.scheme # "Bearer" THEN Reply("Unauthorized", "UNAUTHORIZED")
    ELSE IF h.token.sig # Secret THEN Reply("Unauthorized", "INVALID_TOKEN")
    ELSE Ok

\* authenticate: Ok stands for next()
authenticate(h) ==
    IF h.scheme # "Bearer" THEN Reply("Unauthorized", "UNAUTHORIZED")
    ELSE IF jwtVerify(h.token) = "TokenExpiredError"
    THEN Reply("Unauthorized", "TOKEN_EXPIRED")
    ELSE IF jwtVerify(h.token) = "JsonWebTokenError"
    THEN Reply("Unauthorized", "INVALID_TOKEN")
    ELSE Ok

\* req.user as authenticate sets it from the decoded payload
reqUser(h) ==
    [id |-> h.token.sub, tenantId |-> h.token.tenantId, role |-> h.token.role]

\* generateRefreshToken(userId): {sub, type: 'refresh'} signed with iat;
\* tokens minted at different moments differ in iat
NoRefresh == [sub |-> NoUser, iat |-> 0]
RefreshValues == [sub : UserIds, iat : RefreshIds]
generateRefreshToken(userId, iat) == [sub |-> userId, iat |-> iat]

\* bcrypt reads the first 72 bytes of its input.  Of a refresh token these
\* are the JWT header (36 characters), the dot and 35 characters of the
\* payload, i.e. {"sub":" and the first 18 characters of the user id: iat,
\* exp and the signature lie behind them.
bcryptHash(refreshToken) == [sub |-> refreshToken.sub]
bcryptCompare(refreshToken, tokenHash) == bcryptHash(refreshToken) = tokenHash

\* ------------------------------------------------- in-memory auth routes
Passwords == {"password1", "password2", "short"}
PasswordLength == [pw \in Passwords |-> IF pw = "short" THEN 5 ELSE 9]
NoEmail == ""

\* POST /auth/register up to the await of bcrypt.hash: the stored
\* addresses are compared with the address as it was typed
MemRegisterReply(email, pw, name) ==
    IF email = NoEmail \/ name = NoName THEN Reply("BadRequest", "required")
    ELSE IF PasswordLength[pw] < 8 THEN Reply("BadRequest", "password")
    ELSE IF \E a \in DOMAIN users : users[a].email = email
    THEN Reply("BadRequest", "exists")
    ELSE Ok

MemRegisterBegin(p, email, pw, name) ==
    /\ impl = "mem"
    /\ reqs[p] = Idle
    /\ MemRegisterReply(email, pw, name) = Ok
    /\ reqs' = [reqs EXCEPT ![p] =
           [pc |-> "register_hash",
            row |-> [email |-> toLowerCase(email), passwordHash |-> pw]]]
    /\ UNCHANGED last
    /\ UNCHANGED <<impl, edge, auth, store, session, nextId, now>>

\* ... and from there: users.set(user.id, user), 201 with both tokens
MemRegisterStore(p) ==
    /\ reqs[p].pc = "register_hash"
    /\ nextId.user \in UserIds
    /\ users' = Put(users, nextId.user, reqs[p].row)
    /\ nextId' = [nextId EXCEPT !.user = @ + 1]
    /\ reqs' = [reqs EXCEPT ![p] = Idle]
    /\ last' = Response("register", Ok)
    /\ UNCHANGED <<impl, edge, refreshTokens, store, session, now>>

\* POST /auth/login: find() returns the first user with the address
MemLoginReply(email, pw) ==
    IF email = NoEmail THEN Reply("BadRequest", "required")
    ELSE LET found == {a \in DOMAIN users : users[a].email = toLowerCase(email)} IN
         IF found = {} THEN Reply("BadRequest", "credentials")
         ELSE IF users[Min(found)].passwordHash # pw THEN Reply("BadRequest", "credentials")
         ELSE Ok

MemLogin(email, pw) ==
    /\ impl = "mem"
    /\ MemLoginReply(email, pw) = Ok
    /\ last' = Response("login", Ok)
    /\ UNCHANGED <<impl, limiter, auth, store, session, nextId, now, reqs>>

\* POST /auth/refresh: a stub that answers 200 without any token
MemRefreshReply(refreshToken) ==
    IF refreshToken = NoRefresh THEN Reply("BadRequest", "required")
    ELSE Reply("ok", "not implemented")

MemRefresh(refreshToken) ==
    /\ impl = "mem"
    /\ MemRefreshReply(refreshToken).outcome = "ok"
    /\ last' = Response("refresh", MemRefreshReply(refreshToken))
    /\ UNCHANGED <<impl, limiter, auth, store, session, nextId, now, reqs>>

\* GET /auth/me
MemGetMeReply(h) ==
    IF authenticate(h) # Ok THEN authenticate(h)
    ELSE IF reqUser(h).id \notin DOMAIN users THEN Reply("NotFound", "user")
    ELSE Ok

\* the handler runs, with req.user attached
MemGetMe(h) ==
    /\ impl = "mem"
    /\ authenticate(h) = Ok
    /\ last' = [op |-> "me", outcome |-> MemGetMeReply(h).outcome,
                why |-> MemGetMeReply(h).why, user |-> reqUser(h)]
    /\ UNCHANGED <<impl, limiter, auth, store, session, nextId, now, reqs>>

\* POST /auth/logout: nothing is invalidated
MemLogoutReply(h, refreshToken) == authenticate(h)

MemLogout(h, refreshToken) ==
    /\ impl = "mem"
    /\ MemLogoutReply(h, refreshToken) = Ok
    /\ last' = Response("logout", Ok)
    /\ UNCHANGED <<impl, edge, auth, store, session, nextId, now, reqs>>

\* ------------------------------------------------------- SQL auth routes
\* email NVARCHAR(255) NOT NULL UNIQUE
uq_email(email) == \A a \in DOMAIN users : users[a].email # email

\* POST /auth/register, one step per awaited query
\* 1: SELECT id FROM users WHERE email = emailLower
SqlRegisterReply(email, pw, name) ==
    IF email = NoEmail \/ name = NoName THEN Reply("BadRequest", "required")
    ELSE IF PasswordLength[pw] < 8 THEN Reply("BadRequest", "password")
    ELSE IF \E a \in DOMAIN users : users[a].email = toLowerCase(email)
    THEN Reply("BadRequest", "exists")
    ELSE Ok

SqlRegisterBegin(p, email, pw, name) ==
    /\ impl = "sql"
    /\ reqs[p] = Idle
    /\ SqlRegisterReply(email, pw, name) = Ok
    /\ reqs' = [reqs EXCEPT ![p] =
           [pc |-> "register_user", id |-> NoUser,
            row |-> [email |-> toLowerCase(email), passwordHash |-> pw]]]
    /\ UNCHANGED last
    /\ UNCHANGED <<impl, edge, auth, store, session, nextId, now>>

\* 2: INSERT INTO users
SqlRegisterInsertUser(p) ==
    /\ reqs[p].pc = "register_user"
    /\ IF uq_email(reqs[p].row.email)
       THEN /\ nextId.user \in UserIds
            /\ users' = Put(users, nextId.user, reqs[p].row)
            /\ nextId' = [nextId EXCEPT !.user = @ + 1]
            /\ reqs' = [reqs EXCEPT ![p].pc = "register_token", ![p].id = nextId.user]
            /\ UNCHANGED last
       ELSE /\ reqs' = [reqs EXCEPT ![p] = Idle]
            /\ last' = Response("register", Reply("InternalError", "constraint"))
            /\ UNCHANGED <<users, nextId>>
    /\ UNCHANGED <<impl, edge, refreshTokens, store, session, now>>

\* 3: INSERT INTO refresh_tokens, 201 with both tokens
SqlRegisterStoreToken(p) ==
    /\ reqs[p].pc = "register_token"
    /\ nextId.refresh \in RefreshIds
    /\ refreshTokens' = Put(refreshTokens, nextId.refresh,
           [userId |-> reqs[p].id,
            tokenHash |-> bcryptHash(generateRefreshToken(reqs[p].id, nextId.refresh)),
            expiresAt |-> now + RefreshTtl, revoked |-> FALSE])
    /\ nextId' = [nextId EXCEPT !.refresh = @ + 1]
    /\ reqs' = [reqs EXCEPT ![p] = Idle]
    /\ last' = Response("register", Ok)
    /\ UNCHANGED <<impl, edge, users, store, session, now>>

SqlRegisterStep(p) ==
    \/ SqlRegisterInsertUser(p)
    \/ SqlRegisterStoreToken(p)

\* POST /auth/login
SqlLoginReply(email, pw) ==
    IF email = NoEmail THEN Reply("BadRequest", "required")
    ELSE LET found == {a \in DOMAIN users : users[a].email = toLowerCase(email)} IN
         IF found = {} THEN Reply("Unauthorized", "credentials")
         ELSE IF users[Min(found)].passwordHash # pw THEN Reply("Unauthorized", "credentials")
         ELSE Ok

\* ... a row of refresh_tokens is stored for the token handed out
SqlLogin(email, pw) ==
    /\ impl = "sql"
    /\ SqlLoginReply(email, pw) = Ok
    /\ nextId.refresh \in RefreshIds
    /\ LET a == Min({x \in DOMAIN users : users[x].email = toLowerCase(email)}) IN
       refreshTokens' = Put(refreshTokens, nextId.refresh,
           [userId |-> a,
            tokenHash |-> bcryptHash(generateRefreshToken(a, nextId.refresh)),
            expiresAt |-> now + RefreshTtl, revoked |-> FALSE])
    /\ nextId' = [nextId EXCEPT !.refresh = @ + 1]
    /\ last' = Response("login", Ok)
    /\ UNCHANGED <<impl, limiter, users, store, session, now, reqs>>

\* POST /auth/refresh: the rows that are neither expired nor revoked are
\* tried one by one with bcrypt.compare
SqlRefreshRows(refreshToken) ==
    {k \in DOMAIN refreshTokens :
        /\ refreshTokens[k].expiresAt > now
        /\ ~refreshTokens[k].revoked
        /\ refreshTokens[k].userId \in DOMAIN users
        /\ bcryptCompare(refreshToken, refreshTokens[k].tokenHash)}

SqlRefreshReply(refreshToken) ==
    IF refreshToken = NoRefresh THEN Reply("BadRequest", "required")
    ELSE IF SqlRefreshRows(refreshToken) = {} THEN Reply("Unauthorized", "refresh")
    ELSE Ok

SqlRefresh(refreshToken) ==
    /\ impl = "sql"
    /\ SqlRefreshReply(refreshToken) = Ok
    /\ last' = Response("refresh", Ok)
    /\ UNCHANGED <<impl, limiter, auth, store, session, nextId, now, reqs>>

\* GET /auth/me
SqlGetMeReply(h) ==
    IF authenticate(h) # Ok THEN authenticate(h)
    ELSE IF reqUser(h).id \notin DOMAIN users THEN Reply("NotFound", "user")
    ELSE Ok

SqlGetMe(h) ==
    /\ impl = "sql"
    /\ authenticate(h) = Ok
    /\ last' = [op |-> "me", outcome |-> SqlGetMeReply(h).outcome,
                why |-> SqlGetMeReply(h).why, user |-> reqUser(h)]
    /\ UNCHANGED <<impl, limiter, auth, store, session, nextId, now, reqs>>

\* POST /auth/logout: of the caller's rows that are not revoked, the first
\* one bcrypt.compare accepts is revoked (the SELECT has no ORDER BY)
SqlLogoutRows(h, refreshToken) ==
    {k \in DOMAIN refreshTokens :
        /\ refreshTokens[k].userId = reqUser(h).id
        /\ ~refreshTokens[k].revoked
        /\ bcryptCompare(refreshToken, refreshTokens[k].tokenHash)}

SqlLogoutReply(h, refreshToken) == authenticate(h)

SqlLogout(h, refreshToken) ==
    /\ impl = "sql"
    /\ SqlLogoutReply(h, refreshToken) = Ok
    /\ IF refreshToken # NoRefresh /\ SqlLogoutRows(h, refreshToken) # {}
       THEN \E k \in SqlLogoutRows(h, refreshToken) :
                refreshTokens' = [refreshTokens EXCEPT ![k].revoked = TRUE]
       ELSE UNCHANGED refreshTokens
    /\ last' = Response("logout", Ok)
    /\ UNCHANGED <<impl, edge, users, store, session, nextId, now, reqs>>

\* Time passes for the tokens.
TokenTick ==
    /\ now < MaxNow
    /\ users # <<>>
    /\ now' = now + 1
    /\ UNCHANGED <<impl, edge, auth, store, session, nextId, reqs, last>>

\* ------------------------------------------------------- the rate limiter
\* app.use(rateLimit(config.rateLimit)) runs before optionalAuth: req.user
\* is not set yet and the key is req.ip || 'unknown'
\* requestData after "if (!requestData || now > requestData.resetTime)"
requestData(key) ==
    IF key \notin DOMAIN requestCounts \/ dateNow > requestCounts[key].resetTime
    THEN [count |-> 0, resetTime |-> dateNow + WindowMs]
    ELSE requestCounts[key]

rateLimitReplyOneMore(key) ==
    IF requestData(key).count + 1 > MaxRequests + 1
    THEN Reply("TooManyRequests", "RATE_LIMIT_EXCEEDED")
    ELSE Ok

\* requestData.count++; if (requestData.count > maxRequests) 429
rateLimitReply(key) ==
    IF requestData(key).count + 1 > MaxRequests
    THEN Reply("TooManyRequests", "RATE_LIMIT_EXCEEDED")
    ELSE Ok

\* one request through the middleware; next() hands it to the routes
rateLimit(key) ==
    /\ requestData(key).count < MaxCount
    /\ requestCounts' = Put(requestCounts, key,
           [requestData(key) EXCEPT !.count = @ + 1])
    /\ IF rateLimitReply(key) = Ok
       THEN /\ reached' = [reached EXCEPT ![key][dateNow] = @ + 1]
            /\ last' = Response("next", Ok)
       ELSE /\ reached' = reached
            /\ last' = Response("rateLimit", rateLimitReply(key))
    /\ UNCHANGED <<impl, browser, auth, store, session, nextId, now, reqs, dateNow>>

\* setInterval(..., 60000): entries past their reset time are dropped
cleanup ==
    /\ \E key \in DOMAIN requestCounts : dateNow > requestCounts[key].resetTime
    /\ requestCounts' = [key \in {x \in DOMAIN requestCounts :
                                     ~(dateNow > requestCounts[x].resetTime)}
                            |-> requestCounts[key]]
    /\ UNCHANGED <<impl, browser, auth, store, session, nextId, now, reqs, last, dateNow, reached>>

DateTick ==
    /\ dateNow < MaxDateNow
    /\ dateNow' = dateNow + 1
    /\ UNCHANGED <<impl, browser, auth, store, session, nextId, now, reqs, last,
                   requestCounts, reached>>

\* ------------------------------------------------------------- the browser
\* localStorage: the Authorization header the request interceptor builds
\* from the accessToken item, and the refreshToken item
NoItems == [accessToken |-> [scheme |-> "none", token |-> Malformed],
            refreshToken |-> NoRefresh]

\* what the page asks of the api instance
NoRequest == [route |-> "none", email |-> NoEmail, password |-> ""]
ApiRequests ==
    {[route |-> "me", email |-> NoEmail, password |-> ""]}
        \cup {[route |-> "login", email |-> "a@x", password |-> pw] : pw \in Passwords}

\* the access token login and refresh hand out: generateToken({id, email, name})
IssuedToken(a) ==
    [scheme |-> "Bearer",
     token |-> [sub |-> a, tenantId |-> NoTenant, role |-> NoRole, exp |-> now + 1,
                sig |-> Secret, type |-> "none"]]

\* `Bearer ${accessToken}` with response.data.data.accessToken undefined
BearerUndefined == [scheme |-> "Bearer", token |-> Malformed]

\* the answer of the server to the request in progress
ApiReply(request) ==
    IF request.route = "login"
    THEN IF impl = "mem" THEN MemLoginReply(request.email, request.password)
         ELSE SqlLoginReply(request.email, request.password)
    ELSE IF impl = "mem" THEN MemGetMeReply(localStorage.accessToken)
         ELSE SqlGetMeReply(localStorage.accessToken)

\* the page calls api.get / api.post
ApiSend(request) ==
    /\ client.pc = "idle"
    /\ client' = [pc |-> "sent", request |-> request, refreshes |-> 0]
    /\ UNCHANGED <<impl, limiter, auth, store, session, nextId, now, reqs, last, localStorage>>

\* useAuthStore.login: a 200 from /auth/login stores both tokens
ApiLoginOk ==
    /\ client.pc = "sent"
    /\ client.request.route = "login"
    /\ ApiReply(client.request) = Ok
    /\ \/ MemLogin(client.request.email, client.request.password)
       \/ SqlLogin(client.request.email, client.request.password)
    /\ LET a == Min({x \in DOMAIN users : users[x].email = toLowerCase(client.request.email)})
           iat == IF impl = "mem" THEN 1 ELSE nextId.refresh IN
       localStorage' = [accessToken |-> IssuedToken(a),
                        refreshToken |-> generateRefreshToken(a, iat)]
    /\ client' = [client EXCEPT !.pc = "idle"]

\* a 200 from GET /auth/me
ApiMeOk ==
    /\ client.pc = "sent"
    /\ client.request.route = "me"
    /\ ApiReply(client.request) = Ok
    /\ MemGetMe(localStorage.accessToken) \/ SqlGetMe(localStorage.accessToken)
    /\ client' = [client EXCEPT !.pc = "idle"]
    /\ UNCHANGED localStorage

\* the response interceptor's error handler: a 401 with a stored refresh
\* token goes on to the refresh, every other error is passed to the caller
ApiError ==
    /\ client.pc = "sent"
    /\ ApiReply(client.request).outcome # "ok"
    /\ client' = [client EXCEPT !.pc =
           IF /\ ApiReply(client.request).outcome = "Unauthorized"
              /\ localStorage.refreshToken # NoRefresh
           THEN "refreshing" ELSE "idle"]
    /\ UNCHANGED <<impl, limiter, auth, store, session, nextId, now, reqs, last, localStorage>>

\* axios.post('/auth/refresh') answered 200: the accessToken of the body is
\* stored and api(originalRequest) sends the request again
ApiRefreshRetry ==
    /\ client.pc = "refreshing"
    /\ client.refreshes < MaxRefreshes
    /\ \/ /\ MemRefresh(localStorage.refreshToken)
          /\ localStorage' = [localStorage EXCEPT !.accessToken = BearerUndefined]
       \/ /\ SqlRefresh(localStorage.refreshToken)
          /\ localStorage' = [localStorage EXCEPT !.accessToken =
                 IssuedToken(refreshTokens[Min(SqlRefreshRows(localStorage.refreshToken))].userId)]
    /\ client' = [client EXCEPT !.pc = "sent", !.refreshes = @ + 1]

\* the refresh failed: the items are removed and the page goes to /login
ApiRefreshFailed ==
    /\ client.pc = "refreshing"
    /\ (IF impl = "mem" THEN MemRefreshReply(localStorage.refreshToken)
        ELSE SqlRefreshReply(localStorage.refreshToken)).outcome # "ok"
    /\ localStorage' = NoItems
    /\ client' = [client EXCEPT !.pc = "idle"]
    /\ UNCHANGED <<impl, limiter, auth, store, session, nextId, now, reqs, last>>

\* the state after construction: empty Maps and tables, nothing in the
\* browser
Init ==
    /\ impl \in {"mem", "sql"}
    /\ tenants = <<>>
    /\ tenantMembers = <<>>
    /\ invitations = <<>>
    /\ notes = <<>>
    /\ session = [u \in Users |-> [tenantId |-> NoTenant, role |-> NoRole]]
    /\ nextId = [tenant |-> 1, member |-> 1, inv |-> 1, note |-> 1,
                 user |-> 1, refresh |-> 1]
    /\ users = <<>>
    /\ refreshTokens = <<>>
    /\ now = 0
    /\ reqs = [p \in Procs |-> Idle]
    /\ last = Response("start", Ok)
    /\ requestCounts = <<>>
    /\ dateNow = 0
    /\ reached = [key \in Keys |-> [t \in 0..MaxDateNow |-> 0]]
    /\ localStorage = NoItems
    /\ client = [pc |-> "idle", request |-> NoRequest, refreshes |-> 0]

\* POST /auth/refresh answered 200 for user u, and the interceptor's
\* localStorage.setItem('accessToken', accessToken): the access token u
\* holds from now on is generateToken({id, email, name})
SqlRefreshSession(u) ==
    /\ impl = "sql"
    /\ session' = [session EXCEPT ![u] =
            generateToken([tenantId |-> NoTenant, role |-> NoRole], NoTenant, NoRole)]
    /\ last' = Response("refresh", Ok)
    /\ UNCHANGED <<impl, edge, auth, store, nextId, now, reqs>>

\* ------------------------------------------------------------ the clients
Headers == {NoTenant} \cup TenantIds

\* Membership core: one tenant is founded, members are invited, their roles
\* are changed, they are suspended and removed.  Requests
\* are served one after the other and the clock stands still.
Founders == {"u1"}
Invitees == {"b@x", "c@x"}
InviteRoles == {ADMIN, OWNER}

MemRoutes ==
    \/ \E u \in Founders : nextId.tenant = 1 /\ MemCreateTenant(u, "n1", NoSlug)
    \/ \E u \in Users, t \in TenantIds : MemSwitchTenant(u, t)
    \/ \E u \in Users, h \in Headers, e \in Invitees, r \in InviteRoles : MemInvite(u, h, e, r)
    \/ \E u \in Users, k \in InvIds : MemAccept(u, k)
    \/ \E u \in Users, h \in Headers, m \in MemberIds, r \in Role : MemUpdateRole(u, h, m, r)
    \/ \E u \in Users, h \in Headers, m \in MemberIds : MemRemove(u, h, m)
    \/ \E u \in Users, h \in Headers, m \in MemberIds : MemSuspend(u, h, m)

SqlRoutes ==
    \/ \E u \in Founders : nextId.tenant = 1 /\ SqlCreateBegin(1, u, "n1", NoSlug)
    \/ \E u \in Users, t \in TenantIds : SqlSwitchTenant(u, t)
    \/ \E u \in Users, h \in Headers, e \in Invitees, r \in InviteRoles : SqlInvite(u, h, e, r)
    \/ \E u \in Users, k \in InvIds : SqlAcceptBegin(1, u, k)
    \/ \E u \in Users, h \in Headers, m \in MemberIds, r \in Role : SqlUpdateRole(u, h, m, r)
    \/ \E u \in Users, h \in Headers, m \in MemberIds : SqlRemove(u, h, m)
    \/ \E u \in Users, h \in Headers : SqlLeave(u, h)

Next ==
    \/ Quiet /\ MemRoutes
    \/ Quiet /\ SqlRoutes
    \/ SqlAcceptStep(1)
    \/ SqlCreateStep(1)
    \/ SqlFail(1)

Spec == Init /\ [][Next]_vars

\* Two tenants side by side: u1 and u3 each found one, u2 belongs to none.
\* Tenants are updated, deleted and switched to, and members are invited,
\* with every header and every URL parameter; requests are served one
\* after the other.
TwoFounders == {"u1", "u3"}

MemTenantRoutes ==
    \/ \E u \in TwoFounders, g \in {NoSlug, UserSlug} : MemCreateTenant(u, "n1", g)
    \/ \E u \in Users, t \in TenantIds : MemUpdateTenant(u, t, "n2")
    \/ \E u \in Users, t \in TenantIds : MemDeleteTenant(u, t)
    \/ \E u \in Users, t \in TenantIds : MemSwitchTenant(u, t)
    \/ \E u \in Users, h \in Headers, r \in InviteRoles : MemInvite(u, h, "b@x", r)

SqlTenantRoutes ==
    \/ \E u \in TwoFounders, g \in {NoSlug, UserSlug} : SqlCreateBegin(1, u, "n1", g)
    \/ \E u \in Users, t \in TenantIds : SqlUpdateTenant(u, t, "n2")
    \/ \E u \in Users, t \in TenantIds : SqlDeleteTenant(u, t)
    \/ \E u \in Users, t \in TenantIds : SqlSwitchTenant(u, t)
    \/ \E u \in Users, h \in Headers, r \in InviteRoles : SqlInvite(u, h, "b@x", r)

NextTenant ==
    \/ Quiet /\ MemTenantRoutes
    \/ Quiet /\ SqlTenantRoutes
    \/ SqlCreateStep(1)
    \/ SqlFail(1)

SpecTenant == Init /\ [][NextTenant]_vars

\* Notes: u1 founds a tenant, u2 is invited and joins, is suspended or
\* removed, u3 stays outside; everybody asks for, writes and deletes notes
\* with every header.  Requests are served one after the other.
MemNoteRoutes ==
    \/ \E u \in Founders : nextId.tenant = 1 /\ MemCreateTenant(u, "n1", NoSlug)
    \/ \E u \in Users, h \in Headers, r \in {EDITOR, VIEWER} : MemInvite(u, h, "b@x", r)
    \/ \E u \in Users, k \in InvIds : MemAccept(u, k)
    \/ \E u \in Users, h \in Headers, m \in MemberIds : MemSuspend(u, h, m)
    \/ \E u \in Users, h \in Headers, m \in MemberIds : MemRemove(u, h, m)
    \/ \E u \in Users, h \in Headers : MemListNotes(u, h)
    \/ \E u \in Users, h \in Headers, n \in NoteIds : MemGetNote(u, h, n)
    \/ \E u \in Users, h \in Headers : MemCreateNote(u, h, "t1")
    \/ \E u \in Users, h \in Headers, n \in NoteIds : MemUpdateNote(u, h, n, "t2")
    \/ \E u \in Users, h \in Headers, n \in NoteIds : MemPatchNote(u, h, n, "c1")
    \/ \E u \in Users, h \in Headers, n \in NoteIds, d \in BOOLEAN : MemDeleteNote(u, h, n, d)
    \/ \E u \in Users, h \in Headers, n \in NoteIds : MemRestoreNote(u, h, n)

SqlNoteRoutes ==
    \/ \E u \in Founders : nextId.tenant = 1 /\ SqlCreateBegin(1, u, "n1", NoSlug)
    \/ \E u \in Users, t \in TenantIds : SqlSwitchTenant(u, t)
    \/ \E u \in Users, h \in Headers, r \in {EDITOR, VIEWER} : SqlInvite(u, h, "b@x", r)
    \/ \E u \in Users, k \in InvIds : SqlAcceptBegin(1, u, k)
    \/ \E u \in Users, h \in Headers, m \in MemberIds : SqlRemove(u, h, m)
    \/ \E u \in Users, h \in Headers : SqlListNotes(u, h)
    \/ \E u \in Users, h \in Headers, n \in NoteIds : SqlGetNote(u, h, n)
    \/ \E u \in Users, h \in Headers : SqlCreateNote(u, h, "t1")
    \/ \E u \in Users, h \in Headers, n \in NoteIds : SqlUpdateNote(u, h, n, "t2")
    \/ \E u \in Users, h \in Headers, n \in NoteIds : SqlDeleteNote(u, h, n)

NextNotes ==
    \/ Quiet /\ MemNoteRoutes
    \/ Quiet /\ SqlNoteRoutes
    \/ SqlAcceptStep(1)
    \/ SqlCreateStep(1)
    \/ SqlFail(1)

SpecNotes == Init /\ [][NextNotes]_vars

\* Invitations over time: u1 founds a tenant and invites, the invited
\* accept, are removed or leave, and the clock passes the invitations'
\* expiry, also in the middle of a request.  Requests are served one after
\* the other.
MemInviteRoutes ==
    \/ \E u \in Founders : nextId.tenant = 1 /\ MemCreateTenant(u, "n1", NoSlug)
    \/ \E u \in Users, h \in Headers, e \in Emails, r \in {EDITOR, OWNER} : MemInvite(u, h, e, r)
    \/ \E u \in Users, k \in InvIds : MemAccept(u, k)
    \/ \E u \in Users, h \in Headers, m \in MemberIds : MemRemove(u, h, m)

SqlInviteRoutes ==
    \/ \E u \in Founders : nextId.tenant = 1 /\ SqlCreateBegin(1, u, "n1", NoSlug)
    \/ \E u \in Users, h \in Headers, e \in Emails, r \in {EDITOR, OWNER} : SqlInvite(u, h, e, r)
    \/ \E u \in Users, k \in InvIds : SqlAcceptBegin(1, u, k)
    \/ \E u \in Users, h \in Headers : SqlLeave(u, h)

NextInvite ==
    \/ Tick
    \/ Quiet /\ MemInviteRoutes
    \/ Quiet /\ SqlInviteRoutes
    \/ SqlAcceptStep(1)
    \/ SqlCreateStep(1)
    \/ SqlFail(1)

SpecInvite == Init /\ [][NextInvite]_vars

\* Concurrent requests: the SQL handlers give up control at every awaited
\* query, so the queries of the requests in progress interleave in any
\* order; the in-memory handlers await nothing and run to completion.
MemConcRoutes ==
    \/ \E u \in Founders : MemCreateTenant(u, "n1", NoSlug)
    \/ \E u \in Users, h \in Headers, e \in {"a@x", "b@x"} : MemInvite(u, h, e, EDITOR)
    \/ \E u \in Users, k \in InvIds : MemAccept(u, k)
    \/ \E u \in Users, h \in Headers, m \in MemberIds : MemRemove(u, h, m)

SqlConcRoutes ==
    \/ \E p \in Procs, u \in Founders : SqlCreateBegin(p, u, "n1", NoSlug)
    \/ \E u \in Users, h \in Headers, e \in {"a@x", "b@x"} : SqlInvite(u, h, e, EDITOR)
    \/ \E p \in Procs, u \in Users, k \in InvIds : SqlAcceptBegin(p, u, k)
    \/ \E u \in Users, h \in Headers : SqlLeave(u, h)

NextConc ==
    \/ MemConcRoutes
    \/ SqlConcRoutes
    \/ \E p \in Procs : SqlAcceptStep(p)
    \/ \E p \in Procs : SqlCreateStep(p)
    \/ \E p \in Procs : SqlFail(p)

SpecConc == Init /\ [][NextConc]_vars

\* Accounts and tokens: people register and log in with addresses in either
\* case, present every kind of Authorization header, refresh and log out
\* with every refresh token, while the clock runs.  Two registrations can be
\* under way at once.
RegEmails == {"a@x", "b@x", "B@x"}

\* headers with a token as login hands it out, without tenant context
LoginHeaders == {h \in Authorizations : h.token.role = NoRole /\ h.token.type = "none"}

MemAuthRoutes ==
    \/ \E p \in Procs, e \in RegEmails : MemRegisterBegin(p, e, "password1", "n1")
    \/ \E p \in Procs : MemRegisterStore(p)
    \/ \E e \in RegEmails, pw \in Passwords : MemLogin(e, pw) /\ UNCHANGED browser
    \/ \E r \in RefreshValues : MemRefresh(r) /\ UNCHANGED browser
    \/ \E h \in Authorizations : MemGetMe(h) /\ UNCHANGED browser
    \/ \E h \in LoginHeaders, r \in RefreshValues \cup {NoRefresh} : MemLogout(h, r)

SqlAuthRoutes ==
    \/ \E p \in Procs, e \in RegEmails : SqlRegisterBegin(p, e, "password1", "n1")
    \/ \E p \in Procs : SqlRegisterStep(p)
    \/ \E e \in RegEmails, pw \in Passwords : SqlLogin(e, pw) /\ UNCHANGED browser
    \/ \E r \in RefreshValues : SqlRefresh(r) /\ UNCHANGED browser
    \/ \E h \in Authorizations : SqlGetMe(h) /\ UNCHANGED browser
    \/ \E h \in LoginHeaders, r \in RefreshValues \cup {NoRefresh} : SqlLogout(h, r)
    \/ \E p \in Procs : SqlFail(p)

NextAuth ==
    \/ MemAuthRoutes
    \/ SqlAuthRoutes
    \/ TokenTick

SpecAuth == Init /\ [][NextAuth]_vars

\* Slugs: u1 and u3 create tenants with a generated slug or with the same
\* slug of their choice and delete them again; in the SQL build two create
\* requests can be under way at once and a query can fail.
MemSlugRoutes ==
    \/ \E u \in TwoFounders, g \in {NoSlug, UserSlug} : MemCreateTenant(u, "n1", g)
    \/ \E u \in Users, t \in TenantIds : MemDeleteTenant(u, t)

SqlSlugRoutes ==
    \/ \E p \in Procs, u \in TwoFounders, g \in {NoSlug, UserSlug} : SqlCreateBegin(p, u, "n1", g)
    \/ \E u \in Users, t \in TenantIds : SqlDeleteTenant(u, t)

NextSlug ==
    \/ MemSlugRoutes
    \/ SqlSlugRoutes
    \/ \E p \in Procs : SqlCreateStep(p)
    \/ \E p \in Procs : SqlFail(p)

SpecSlug == Init /\ [][NextSlug]_vars

\* Two tenants with members: u1 and u3 each found a tenant and invite b@x,
\* u2 accepts; everybody then changes roles, suspends and removes with every
\* header and every member id.  Requests are served one after the other.
MemScopeRoutes ==
    \/ \E u \in TwoFounders : MemCreateTenant(u, "n1", NoSlug)
    \/ \E u \in TwoFounders, h \in Headers : MemInvite(u, h, "b@x", ADMIN)
    \/ \E k \in InvIds : MemAccept("u2", k)
    \/ \E u \in Users, h \in Headers, m \in MemberIds, r \in {EDITOR, VIEWER} : MemUpdateRole(u, h, m, r)
    \/ \E u \in Users, h \in Headers, m \in MemberIds : MemRemove(u, h, m)
    \/ \E u \in Users, h \in Headers, m \in MemberIds : MemSuspend(u, h, m)

SqlScopeRoutes ==
    \/ \E u \in TwoFounders : SqlCreateBegin(1, u, "n1", NoSlug)
    \/ \E u \in Users, t \in TenantIds : SqlSwitchTenant(u, t)
    \/ \E u \in TwoFounders, h \in Headers : SqlInvite(u, h, "b@x", ADMIN)
    \/ \E k \in InvIds : SqlAcceptBegin(1, "u2", k)
    \/ \E u \in Users, h \in Headers, m \in MemberIds, r \in {EDITOR, VIEWER} : SqlUpdateRole(u, h, m, r)
    \/ \E u \in Users, h \in Headers, m \in MemberIds : SqlRemove(u, h, m)

NextScope ==
    \/ Quiet /\ MemScopeRoutes
    \/ Quiet /\ SqlScopeRoutes
    \/ SqlAcceptStep(1)
    \/ SqlCreateStep(1)

SpecScope == Init /\ [][NextScope]_vars

\* ------------------------------------------------------------- the claims
\* the answers of the build that is running
InviteReply(u, h, email, role) ==
    IF impl = "mem" THEN MemInviteReply(u, h, email, role) ELSE SqlInviteReply(u, h, email, role)

AcceptReply(u, k) ==
    IF impl = "mem" THEN MemAcceptReply(u, k) ELSE SqlAcceptReply(u, k)

UpdateRoleReply(u, h, m, role) ==
    IF impl = "mem" THEN MemUpdateRoleReply(u, h, m, role) ELSE SqlUpdateRoleReply(u, h, m, role)

RemoveReply(u, h, m) ==
    IF impl = "mem" THEN MemRemoveReply(u, h, m) ELSE SqlRemoveReply(u, h, m)

UpdateTenantReply(u, t, name) ==
    IF impl = "mem" THEN MemUpdateTenantReply(u, t) ELSE SqlUpdateTenantReply(u, t, name)

DeleteTenantReply(u, t) ==
    IF impl = "mem" THEN MemDeleteTenantReply(u, t) ELSE SqlDeleteTenantReply(u, t)

UpdateRole(u, h, m, role) == MemUpdateRole(u, h, m, role) \/ SqlUpdateRole(u, h, m, role)

Remove(u, h, m) == MemRemove(u, h, m) \/ SqlRemove(u, h, m)

DeleteTenant(u, t) == MemDeleteTenant(u, t) \/ SqlDeleteTenant(u, t)

OwnerMemberIds(tm, t) == {m \in DOMAIN tm : tm[m].tenantId = t /\ tm[m].role = OWNER}

\* rank of the user's current active membership in tenant t; 0 without one
CurrentRank(t, u) ==
    IF ActiveMemberIds(tenantMembers, t, u) = {} THEN 0
    ELSE RoleHierarchy[CurrentMembership(t, u).role]

C1_OneOwner ==
    Quiet => \A t \in DOMAIN tenants : Cardinality(OwnerMemberIds(tenantMembers, t)) = 1

C1_OwnerStays ==
    \A m \in DOMAIN tenantMembers :
        (tenantMembers[m].role = OWNER /\ tenantMembers[m].tenantId \in DOMAIN tenants')
            => (m \in DOMAIN tenantMembers' /\ tenantMembers'[m] = tenantMembers[m])

\* C1: whenever no request is in progress, every tenant in the store has
\* exactly one membership of role OWNER, and no step of any request (role
\* change, suspend, remove, leave, accept) removes, suspends or changes the
\* role of the owner membership of a tenant that stays in the store.
C1_OwnerInvariant == []C1_OneOwner /\ [][C1_OwnerStays]_vars

\* a create request has failed after its first insert: a tenant without owner
C1_TenantWithoutOwner ==
    /\ Quiet
    /\ \E t \in DOMAIN tenants : OwnerMemberIds(tenantMembers, t) = {}

\* C2: under every interleaving of the steps of concurrent accept and create
\* tenant requests, no two memberships have the same (tenantId, userId).
C2_UniqueTenantUser ==
    \A m1, m2 \in DOMAIN tenantMembers :
        (/\ tenantMembers[m1].tenantId = tenantMembers[m2].tenantId
         /\ tenantMembers[m1].userId = tenantMembers[m2].userId) => m1 = m2

\* two accept requests of one user for one tenant have both passed the
\* membership check, one has inserted its row and the other is about to
C2_RacingInserts ==
    \E p, q \in Procs :
        /\ p # q
        /\ reqs[p].pc = "accept_insert"
        /\ reqs[q].pc = "accept_update"
        /\ reqs[p].user = reqs[q].user
        /\ reqs[p].row.tenantId = reqs[q].row.tenantId
        /\ AnyMemberIds(tenantMembers, reqs[p].row.tenantId, reqs[p].user) # {}

C3_TokenOfOtherTenant(u, t) ==
    /\ Quiet
    /\ t \in DOMAIN tenants
    /\ tenants[t].status = "active"
    /\ session[u].tenantId \notin {NoTenant, t}
    /\ ActiveMemberIds(tenantMembers, t, u) = {}

\* C3: a request with a token issued for another tenant that resolves (by
\* header or URL parameter) to the active tenant t, from a user without
\* active membership in t, is answered Forbidden by invite, role change,
\* removal and tenant update, whatever role the token claims; being refused,
\* it changes nothing in t.
C3_NonMemberForbidden ==
    \A u \in Users, t \in TenantIds :
        C3_TokenOfOtherTenant(u, t) =>
            /\ \A e \in Emails, r \in {VIEWER, EDITOR, ADMIN} :
                   InviteReply(u, t, e, r).outcome = "Forbidden"
            /\ \A n \in Names : UpdateTenantReply(u, t, n).outcome = "Forbidden"
            /\ \A m \in DOMAIN tenantMembers, r \in Role :
                   tenantMembers[m].tenantId = t =>
                       /\ UpdateRoleReply(u, t, m, r).outcome = "Forbidden"
                       /\ RemoveReply(u, t, m).outcome = "Forbidden"

\* the owner of one tenant names the other tenant in the header, and the
\* invitation into it and its renaming are both granted
C3_ForeignWriteGranted ==
    \E u \in Users, t \in TenantIds :
        /\ C3_TokenOfOtherTenant(u, t)
        /\ InviteReply(u, t, "b@x", ADMIN) = Ok
        /\ UpdateTenantReply(u, t, "n2") = Ok

C4_Reads(u, n) ==
    \/ \E h \in Headers : MemGetNote(u, h, n) \/ SqlGetNote(u, h, n)
    \/ \E h \in Headers :
           /\ MemListNotes(u, h) \/ SqlListNotes(u, h)
           /\ notes[n].tenantId = ReqTenant(u, h)
           /\ ~notes[n].isDeleted

C4_Writes(u, n) ==
    \E h \in Headers :
        \/ \E x \in Titles : MemUpdateNote(u, h, n, x) \/ SqlUpdateNote(u, h, n, x)
        \/ \E c \in Contents : MemPatchNote(u, h, n, c)
        \/ \E d \in BOOLEAN : MemDeleteNote(u, h, n, d)
        \/ SqlDeleteNote(u, h, n)
        \/ MemRestoreNote(u, h, n)

C4_Creates(u, t) ==
    \E h \in Headers, x \in Titles :
        /\ ReqTenant(u, h) = t
        /\ MemCreateNote(u, h, x) \/ SqlCreateNote(u, h, x)

\* C4: a note of tenant t is returned, created, updated or deleted only by a
\* request of a user who, at that moment, holds a membership in t that is not
\* suspended.
C4_TenantIsolation ==
    [][/\ \A u \in Users, n \in DOMAIN notes :
              (C4_Reads(u, n) \/ C4_Writes(u, n))
                  => ActiveMemberIds(tenantMembers, notes[n].tenantId, u) # {}
       /\ \A u \in Users, t \in TenantIds :
              C4_Creates(u, t) => ActiveMemberIds(tenantMembers, t, u) # {}]_vars

\* a user who is in no tenant names the note's tenant in the header and is
\* given the note
C4_OutsiderReads ==
    \E u \in Users, n \in DOMAIN notes :
        /\ Quiet
        /\ impl = "sql"
        /\ \A t \in TenantIds : AnyMemberIds(tenantMembers, t, u) = {}
        /\ SqlGetNoteReply(u, notes[n].tenantId, n) = Ok

C5_Succeeds(u, m) ==
    \/ \E h \in Headers, r \in Role : UpdateRole(u, h, m, r)
    \/ \E h \in Headers : Remove(u, h, m)
    \/ \E h \in Headers : MemSuspend(u, h, m)

\* C5: a role change, a suspend or a removal of another member succeeds only
\* if the rank of the actor's current membership in the target's tenant is
\* strictly above the rank of the target's current role.
C5_OutranksTarget ==
    [][\A u \in Users, m \in MemberIds :
          (C5_Succeeds(u, m) /\ tenantMembers[m].userId # u)
              => CurrentRank(tenantMembers[m].tenantId, u) > RoleHierarchy[tenantMembers[m].role]]_vars

\* an ADMIN, with the token of an ADMIN, asks to remove another ADMIN and
\* the removal is granted
C5_AdminRemovesAdmin ==
    \E u \in Users, m \in DOMAIN tenantMembers :
        /\ Quiet
        /\ tenantMembers[m].userId # u
        /\ tenantMembers[m].role = ADMIN
        /\ CurrentRank(tenantMembers[m].tenantId, u) = RoleHierarchy[ADMIN]
        /\ session[u] = [tenantId |-> tenantMembers[m].tenantId, role |-> ADMIN]
        /\ RemoveReply(u, NoTenant, m) = Ok

\* C6: a successful role change by an actor who is not OWNER sets a role
\* strictly below the actor's current rank, and no role change sets OWNER.
C6_BelowActor ==
    [][\A u \in Users, h \in Headers, m \in MemberIds, r \in Role :
          UpdateRole(u, h, m, r)
              => /\ r # OWNER
                 /\ tenantMembers'[m].role # OWNER
                 /\ (CurrentRank(tenantMembers[m].tenantId, u) # RoleHierarchy[OWNER]
                        => RoleHierarchy[r] < CurrentRank(tenantMembers[m].tenantId, u))]_vars

\* an ADMIN asks to make a VIEWER an ADMIN, and the change is granted
C6_AdminMakesAdmin ==
    \E u \in Users, m \in DOMAIN tenantMembers :
        /\ Quiet
        /\ tenantMembers[m].userId # u
        /\ tenantMembers[m].role = VIEWER
        /\ CurrentRank(tenantMembers[m].tenantId, u) = RoleHierarchy[ADMIN]
        /\ session[u] = [tenantId |-> tenantMembers[m].tenantId, role |-> ADMIN]
        /\ UpdateRoleReply(u, NoTenant, m, ADMIN) = Ok

C7_OwnMembership(u, h, m) ==
    /\ m \in DOMAIN tenantMembers
    /\ tenantMembers[m].userId = u
    /\ tenantMembers[m].tenantId = ReqTenant(u, h)

\* C7: a role change whose target is the requester's own membership (in the
\* tenant the request resolves to) is answered Forbidden, for every current
\* and every requested role; being refused, it does not change the role.
C7_SelfForbidden ==
    \A u \in Users, h \in Headers, m \in MemberIds, r \in Role :
        C7_OwnMembership(u, h, m) => UpdateRoleReply(u, h, m, r).outcome = "Forbidden"

\* an ADMIN asks for OWNER on the own membership and is answered 400
C7_SelfOwnerBadRequest ==
    \E u \in Users, h \in Headers, m \in MemberIds :
        /\ C7_OwnMembership(u, h, m)
        /\ tenantMembers[m].role = ADMIN
        /\ UpdateRoleReply(u, h, m, OWNER) = Reply("BadRequest", "role")

\* C8: deleting tenant t succeeds only for the user who is t's owner.
C8_OnlyOwnerDeletes ==
    [][\A u \in Users, t \in TenantIds :
          DeleteTenant(u, t) => (t \in DOMAIN tenants /\ tenants[t].ownerId = u)]_vars

\* the owner of one tenant asks to delete the other, and it is granted
C8_ForeignDeleteGranted ==
    \E u \in Users, t \in DOMAIN tenants :
        /\ Quiet
        /\ tenants[t].ownerId # u
        /\ OwnerMemberIds(tenantMembers, t) # {}
        /\ DeleteTenantReply(u, t) = Ok

C9_Used(k) == k \in DOMAIN invitations /\ invitations[k].status = "accepted"

C9_LaterAcceptRefused ==
    \A k \in InvIds :
        C9_Used(k) =>
            /\ \A u \in Users : AcceptReply(u, k) # Ok
            /\ \A u \in Users :
                   Cardinality(AnyMemberIds(tenantMembers, invitations[k].tenantId, u)) <= 1

C9_UsedStaysUsed ==
    \A k \in InvIds :
        C9_Used(k) =>
            /\ k \in DOMAIN invitations' => invitations'[k].status = "accepted"
            /\ \A u \in Users : ~MemAccept(u, k)
            /\ \A p \in Procs, u \in Users : ~SqlAcceptBegin(p, u, k)

C10_Passed(k) ==
    /\ k \in DOMAIN invitations
    /\ invitations[k].status = "pending"
    /\ now > invitations[k].expiresAt

C10_AnsweredExpired ==
    \A u \in Users, k \in InvIds :
        C10_Passed(k) => AcceptReply(u, k) = Reply("BadRequest", "expired")

C10_StoredExpired ==
    \A u \in Users, k \in InvIds :
        C10_Passed(k) =>
            /\ MemAccept(u, k) => (invitations'[k].status = "expired"
                                   /\ tenantMembers' = tenantMembers)
            /\ \A p \in Procs : ~SqlAcceptBegin(p, u, k)

\* C10: an accept request for a pending invitation whose expiresAt has passed
\* is answered with the expired error, whoever sends it; it creates no
\* membership and leaves the stored status expired.
C10_ExpiredOnAccept == []C10_AnsweredExpired /\ [][C10_StoredExpired]_vars

\* an invitation past its expiry that the store still holds as pending
C10_PassedStillPending == impl = "sql" /\ Quiet /\ \E k \in InvIds : C10_Passed(k)

\* a pending invitation that has not reached its expiry: a valid token
C11_Valid(k) ==
    /\ k \in DOMAIN invitations
    /\ invitations[k].status = "pending"
    /\ invitations[k].expiresAt > now

C11_OtherEmail(u, k) == toLowerCase(UserEmail[u]) # toLowerCase(invitations[k].email)

C11_OtherEmailForbidden ==
    \A u \in Users, k \in InvIds :
        (C11_Valid(k) /\ C11_OtherEmail(u, k)) =>
            AcceptReply(u, k) = Reply("Forbidden", "email")

\* every membership a step adds below OWNER carries the user whose address
\* is the one of an invitation to that tenant
C11_JoinsByOwnAddress ==
    \A m \in DOMAIN tenantMembers' \ DOMAIN tenantMembers :
        tenantMembers'[m].role # OWNER =>
            \E k \in DOMAIN invitations :
                /\ invitations[k].tenantId = tenantMembers'[m].tenantId
                /\ ~C11_OtherEmail(tenantMembers'[m].userId, k)

\* C11: an accept succeeds only for the user whose e-mail address equals the
\* invitation's, ignoring case.  A user with another address who presents a
\* valid token is answered Forbidden, and no step ever adds a membership for
\* a user whose address differs from the invitation's.
C11_EmailMustMatch == []C11_OtherEmailForbidden /\ [][C11_JoinsByOwnAddress]_vars

\* the addressee of one invitation has joined with it, and another user who
\* presents a still valid token is answered Forbidden
C11_JoinedAcrossCase ==
    /\ Quiet
    /\ \E k \in DOMAIN invitations, m \in DOMAIN tenantMembers :
        /\ invitations[k].status = "accepted"
        /\ tenantMembers[m].tenantId = invitations[k].tenantId
        /\ tenantMembers[m].role # OWNER
        /\ ~C11_OtherEmail(tenantMembers[m].userId, k)
    /\ \E u \in Users, k \in InvIds :
        /\ C11_Valid(k)
        /\ C11_OtherEmail(u, k)
        /\ AcceptReply(u, k) = Reply("Forbidden", "email")

\* the membership an accept of invitation k by user u writes
C12_Joined(u, k) ==
    [tenantId |-> invitations[k].tenantId, userId |-> u,
     role |-> invitations[k].role, isSuspended |-> FALSE]

\* exactly one row is added to the membership store, and it is row
C12_AddsOnly(row) ==
    \E m \in MemberIds \ DOMAIN tenantMembers : tenantMembers' = Put(tenantMembers, m, row)

C12_MarksOnly(k) == invitations' = [invitations EXCEPT ![k].status = "accepted"]

\* in-memory build: the handler runs in one piece
C12_MemAccepts ==
    \A u \in Users, k \in InvIds :
        (MemAccept(u, k) /\ MemAcceptReply(u, k) = Ok) =>
            /\ invitations[k].role # OWNER
            /\ C12_AddsOnly(C12_Joined(u, k))
            /\ C12_MarksOnly(k)

\* SQL build: the INSERT adds the row and touches no invitation, the UPDATE
\* that ends the request marks the invitation and touches no membership,
\* and at the answer the user holds exactly the membership the INSERT wrote
C12_SqlAccepts ==
    \A p \in Procs :
        /\ (SqlAcceptInsert(p) /\ reqs'[p].pc = "accept_update") =>
               /\ reqs[p].id \in DOMAIN invitations
               /\ invitations[reqs[p].id].role # OWNER
               /\ C12_AddsOnly(C12_Joined(reqs[p].user, reqs[p].id))
               /\ invitations' = invitations
        /\ SqlAcceptUpdate(p) =>
               /\ reqs[p].id \in DOMAIN invitations
               /\ C12_MarksOnly(reqs[p].id)
               /\ tenantMembers' = tenantMembers
               /\ \E m \in DOMAIN tenantMembers :
                      /\ tenantMembers[m] = C12_Joined(reqs[p].user, reqs[p].id)
                      /\ AnyMemberIds(tenantMembers,
                             invitations[reqs[p].id].tenantId, reqs[p].user) = {m}

\* C12: a successful accept adds exactly one membership: for the accepting
\* user, in the invitation's tenant, with the invitation's role, which is
\* never OWNER; it sets that invitation to accepted and changes no other
\* membership and no other invitation.
C12_AcceptEffect == [][C12_MemAccepts /\ C12_SqlAccepts]_vars

\* an accept has just been answered with success: the invitation is
\* accepted and its addressee holds the membership it promised
C12_JustAccepted ==
    /\ Quiet
    /\ last = Response("accept", Ok)
    /\ \E k \in DOMAIN invitations, m \in DOMAIN tenantMembers, u \in Users :
        /\ invitations[k].status = "accepted"
        /\ tenantMembers[m] = C12_Joined(u, k)
        /\ \E j \in DOMAIN invitations : j # k /\ invitations[j].status = "pending"

C13_AcceptPcs == {"accept_email", "accept_member", "accept_insert", "accept_update"}

\* in-memory build: the only failure that writes is the one caused by expiry
C13_MemFailedAccept ==
    \A u \in Users, k \in InvIds :
        (MemAccept(u, k) /\ MemAcceptReply(u, k) # Ok) =>
            /\ tenantMembers' = tenantMembers
            /\ MemAcceptReply(u, k) = Reply("BadRequest", "expired")
            /\ invitations' = [invitations EXCEPT ![k].status = "expired"]

\* SQL build: a step that ends an accept request in any way but the final
\* UPDATE ends it with an error.  It writes nothing itself, and the request
\* has written nothing before: it is not past its INSERT.
C13_SqlFailedAccept ==
    \A p \in Procs :
        (/\ reqs[p].pc \in C13_AcceptPcs
         /\ reqs'[p] = Idle
         /\ ~SqlAcceptUpdate(p)) =>
            /\ tenantMembers' = tenantMembers
            /\ invitations' = invitations
            /\ reqs[p].pc # "accept_update"

\* C13: an accept that fails leaves the membership store and every
\* invitation as they were when the request arrived; the one write a failed
\* accept may make is to set the status of an invitation past its expiry to
\* expired.
C13_FailedAcceptFrame == [][C13_MemFailedAccept /\ C13_SqlFailedAccept]_vars

\* an accept was answered with an error, and the membership it wrote from
\* the still pending invitation is in the store
C13_FailedButJoined ==
    /\ impl = "sql"
    /\ Quiet
    /\ last = Response("accept", Reply("InternalError", "store"))
    /\ \E k \in DOMAIN invitations, m \in DOMAIN tenantMembers :
        /\ invitations[k].status = "pending"
        /\ tenantMembers[m] = C12_Joined(tenantMembers[m].userId, k)

\* C14: for every tenant and every address, taken in lower case, at most
\* one invitation is pending, and while one is pending every invite request
\* for that tenant and address is refused, however the address is typed.
C14_OnePendingPerAddress ==
    \A t \in TenantIds, e \in Emails :
        /\ Cardinality(PendingInvites(t, toLowerCase(e))) <= 1
        /\ PendingInvites(t, toLowerCase(e)) # {} =>
               \A u \in Users, h \in Headers, r \in Role :
                   ReqTenant(u, h) = t => InviteReply(u, h, e, r) # Ok

\* two invitations for one tenant and the address b@x are pending at once
C14_TwoPending ==
    /\ Quiet
    /\ \E j, k \in DOMAIN invitations :
        /\ j # k
        /\ invitations[j].status = "pending"
        /\ invitations[k].status = "pending"
        /\ invitations[j].tenantId = invitations[k].tenantId
        /\ invitations[j].email = invitations[k].email
        /\ invitations[j].email = "b@x"

\* C15: in every step every stored invitation keeps its status or moves from
\* pending to accepted, rejected or expired; the status of an invitation
\* that is no longer pending never changes again.
C15_StatusMovesOnce ==
    [][\A k \in DOMAIN invitations :
          k \in DOMAIN invitations' =>
              \/ invitations'[k].status = invitations[k].status
              \/ /\ invitations[k].status = "pending"
                 /\ invitations'[k].status \in {"accepted", "rejected", "expired"}]_vars

\* one invitation has expired on an accept attempt, another was accepted,
\* and the addressee of the expired one is refused when presenting it
C15_BothTerminal ==
    /\ Quiet
    /\ \E j, k \in DOMAIN invitations, u \in Users :
        /\ invitations[j].status = "accepted"
        /\ invitations[k].status = "expired"
        /\ ~C11_OtherEmail(u, k)
        /\ AcceptReply(u, k).outcome = "BadRequest"

Invite(u, h, email, role) == MemInvite(u, h, email, role) \/ SqlInvite(u, h, email, role)

\* C16: every invite request that creates an invitation for a tenant comes
\* from a user who at that moment holds a membership in that tenant that is
\* not suspended and has role ADMIN or OWNER.
C16_InvitedByAdmin ==
    [][\A u \in Users, h \in Headers, e \in Emails, r \in Role :
          Invite(u, h, e, r) => CurrentRank(ReqTenant(u, h), u) >= RoleHierarchy[ADMIN]]_vars

\* the invitation created last is for a tenant in which its inviter holds
\* no membership at all
C16_InvitedByOutsider ==
    /\ Quiet
    /\ last = Response("invite", Ok)
    /\ \E k \in DOMAIN invitations :
        /\ k = nextId.inv - 1
        /\ invitations[k].tenantId \in DOMAIN tenants
        /\ AnyMemberIds(tenantMembers, invitations[k].tenantId, invitations[k].invitedBy) = {}
        /\ AnyMemberIds(tenantMembers, session[invitations[k].invitedBy].tenantId,
                        invitations[k].invitedBy) # {}

\* the self-leave of the build that is running: DELETE /members/:memberId
\* on one's own membership in memory, POST /members/leave in SQL
LeaveReply(u, h, m) ==
    IF impl = "mem" THEN MemRemoveReply(u, h, m) ELSE SqlLeaveReply(u, h)

Leave(u, h, m) == MemRemove(u, h, m) \/ SqlLeave(u, h)

\* membership m is the requester's own, in the tenant the request names
C17_Own(u, h, m) ==
    /\ m \in DOMAIN tenantMembers
    /\ tenantMembers[m].userId = u
    /\ tenantMembers[m].tenantId = ReqTenant(u, h)

C17_LeaveAnswer ==
    \A u \in Users, h \in Headers, m \in MemberIds :
        C17_Own(u, h, m) =>
            /\ tenantMembers[m].role = OWNER =>
                   LeaveReply(u, h, m).outcome = "Forbidden"
            /\ (tenantMembers[m].role # OWNER /\ ~tenantMembers[m].isSuspended) =>
                   LeaveReply(u, h, m) = Ok

C17_LeaveEffect ==
    \A u \in Users, h \in Headers, m \in MemberIds :
        (C17_Own(u, h, m) /\ Leave(u, h, m)) =>
            /\ tenantMembers[m].role # OWNER
            /\ tenantMembers' = Del(tenantMembers, m)
            /\ invitations' = invitations

C18_Suspended(u, t) ==
    /\ t \in DOMAIN tenants
    /\ \E m \in AnyMemberIds(tenantMembers, t, u) : tenantMembers[m].isSuspended

\* the answers to the requests that name the tenant in the URL
C18_TenantAnswers(u, t) ==
    IF impl = "mem"
    THEN {MemGetTenantReply(u, t), MemUpdateTenantReply(u, t), MemDeleteTenantReply(u, t),
          MemSwitchTenantReply(u, t)}
    ELSE {SqlUpdateTenantReply(u, t, "n2"), SqlDeleteTenantReply(u, t),
          SqlSwitchTenantReply(u, t)}

\* the answers to the requests that take the tenant from header or token
C18_ScopedAnswers(u, h) ==
    IF impl = "mem"
    THEN {MemListMembersReply(u, h), MemAttachmentsReply(u, h), MemListNotesReply(u, h)}
         \cup {MemCreateNoteReply(u, h, x) : x \in Titles}
         \cup {MemInviteReply(u, h, e, r) : e \in Emails, r \in Role}
         \cup UNION {{MemGetNoteReply(u, h, n), MemPatchNoteReply(u, h, n),
                      MemDeleteNoteReply(u, h, n), MemRestoreNoteReply(u, h, n)}
                     \cup {MemUpdateNoteReply(u, h, n, x) : x \in Titles} : n \in NoteIds}
         \cup UNION {{MemRemoveReply(u, h, m), MemSuspendReply(u, h, m)}
                     \cup {MemUpdateRoleReply(u, h, m, r) : r \in Role} : m \in MemberIds}
    ELSE {SqlListNotesReply(u, h), SqlLeaveReply(u, h)}
         \cup {SqlCreateNoteReply(u, h, x) : x \in Titles}
         \cup {SqlInviteReply(u, h, e, r) : e \in Emails, r \in Role}
         \cup UNION {{SqlGetNoteReply(u, h, n), SqlDeleteNoteReply(u, h, n)}
                     \cup {SqlUpdateNoteReply(u, h, n, x) : x \in Titles} : n \in NoteIds}
         \cup UNION {{SqlRemoveReply(u, h, m)}
                     \cup {SqlUpdateRoleReply(u, h, m, r) : r \in Role} : m \in MemberIds}

\* C18: while a user's membership in a tenant is suspended, every request of
\* that user that is scoped to that tenant is refused: notes and
\* attachments, the member list, invite, role change, suspend, remove, and
\* reading, updating, deleting and switching to the tenant.
C18_SuspendedHasNoRights ==
    \A u \in Users, t \in TenantIds :
        C18_Suspended(u, t) =>
            /\ Ok \notin C18_TenantAnswers(u, t)
            /\ \A h \in Headers : ReqTenant(u, h) = t => Ok \notin C18_ScopedAnswers(u, h)

\* a member who could write notes is suspended, a note of the tenant is in
\* the store, and the member's request to read it is refused
C18_SuspendedRefused ==
    /\ Quiet
    /\ \E u \in Users, t \in TenantIds, m \in MemberIds, n \in DOMAIN notes :
        /\ C18_Suspended(u, t)
        /\ m \in AnyMemberIds(tenantMembers, t, u)
        /\ tenantMembers[m].role = EDITOR
        /\ notes[n].tenantId = t
        /\ ~notes[n].isDeleted
        /\ tenants[t].status = "active"
        /\ MemGetNoteReply(u, t, n) = Reply("Forbidden", "access")

CreateNoteReply(u, h, title) ==
    IF impl = "mem" THEN MemCreateNoteReply(u, h, title) ELSE SqlCreateNoteReply(u, h, title)

\* the user's token was issued for a tenant in which the user's membership
\* has since been downgraded or suspended: the role claim outranks the store
C19_Stale(u) ==
    /\ session[u].role # NoRole
    /\ session[u].tenantId \in DOMAIN tenants
    /\ tenants[session[u].tenantId].status = "active"
    /\ AnyMemberIds(tenantMembers, session[u].tenantId, u) # {}
    /\ CurrentRank(session[u].tenantId, u) < RoleHierarchy[session[u].role]

\* ordinary requests sent with the token alone are authorized by its claim:
\* an ADMIN claim may invite, an EDITOR claim may write a note
C19_ClaimAuthorizes ==
    \A u \in Users :
        (Quiet /\ C19_Stale(u)) =>
            /\ RoleHierarchy[session[u].role] >= RoleHierarchy[ADMIN] =>
                   \A e \in Emails :
                       InviteReply(u, NoTenant, e, VIEWER).outcome # "Forbidden"
            /\ RoleHierarchy[session[u].role] >= RoleHierarchy[EDITOR] =>
                   CreateNoteReply(u, NoTenant, "t1").outcome # "Forbidden"

\* a role change, a suspension or a removal does not touch any token
C19_TokenKept ==
    \A u \in Users, h \in Headers, m \in MemberIds :
        (\/ \E r \in Role : UpdateRole(u, h, m, r)
         \/ MemSuspend(u, h, m)
         \/ Remove(u, h, m)) => session' = session

\* C19: a token issued before its holder was downgraded or suspended stays
\* as it is, and for the requests sent with it the role it claims keeps
\* deciding: what the claim allows is not answered Forbidden, until the
\* token is issued anew.
C19_StaleTokenAuthorizes == []C19_ClaimAuthorizes /\ [][C19_TokenKept]_vars

\* a user holds a token that claims ADMIN, the membership has since been
\* downgraded, and the user's invite is answered Forbidden
C19_DowngradeEffective ==
    /\ Quiet
    /\ \E u \in Users, m \in MemberIds :
        /\ C19_Stale(u)
        /\ session[u].role = ADMIN
        /\ m \in ActiveMemberIds(tenantMembers, session[u].tenantId, u)
        /\ tenantMembers[m].role \in {EDITOR, VIEWER}
        /\ InviteReply(u, NoTenant, "c@x", VIEWER).outcome = "Forbidden"

\* a role change that succeeded is granted again when sent again, and a
\* role change to the role the member already has changes nothing
C20_RoleChangeAgain ==
    \A u \in Users, h \in Headers, m \in MemberIds, r \in Role :
        UpdateRole(u, h, m, r) =>
            /\ UpdateRoleReply(u, h, m, r)' = Ok
            /\ tenantMembers[m].role = r => store' = store

\* likewise a suspension
C20_SuspendAgain ==
    \A u \in Users, h \in Headers, m \in MemberIds :
        MemSuspend(u, h, m) =>
            /\ MemSuspendReply(u, h, m)' = Ok
            /\ tenantMembers[m].isSuspended => store' = store

\* likewise a removal: the one that succeeded is answered with success
\* when it is sent again
C20_RemoveAgain ==
    \A u \in Users, h \in Headers, m \in MemberIds :
        Remove(u, h, m) => RemoveReply(u, h, m)' = Ok

\* C20: role change, suspend and remove are idempotent: the request that has
\* just succeeded is answered with success when it is sent again, and a
\* request whose result already holds leaves the store as it is.
C20_Idempotent == [][C20_RoleChangeAgain /\ C20_SuspendAgain /\ C20_RemoveAgain]_vars

\* the owner has just removed a member, and the same request sent again is
\* answered NotFound
C20_RemovedIsNotFound ==
    /\ Quiet
    /\ last = Response("remove", Ok)
    /\ \E t \in DOMAIN tenants, m \in MemberIds \ DOMAIN tenantMembers :
        /\ m < nextId.member
        /\ ReqTenant(tenants[t].ownerId, t) = t
        /\ CurrentRank(t, tenants[t].ownerId) = RoleHierarchy[OWNER]
        /\ RemoveReply(tenants[t].ownerId, t, m) = Reply("NotFound", "member")

\* ------------------------------------------------------------------ C21
\* req.tenantId of a request whose route carries :tenantId = param: the
\* resolver has already run as global middleware when the route is matched
C21_Resolved(u, param, header) == ReqTenant(u, header)

\* the order the resolver is described with
C21_Priority(param, header, claim) ==
    IF param # NoTenant THEN param
    ELSE IF header # NoTenant THEN header
    ELSE claim

\* C21: the resolved tenant is the URL tenantId parameter when present,
\* otherwise the X-Tenant-ID header, otherwise the token's tenantId claim,
\* and there is no tenant only when all three are absent.
C21_UrlThenHeaderThenClaim ==
    \A u \in Users, param \in Headers, header \in Headers :
        /\ C21_Resolved(u, param, header) =
               C21_Priority(param, header, session[u].tenantId)
        /\ (C21_Resolved(u, param, header) = NoTenant) <=>
               (param = NoTenant /\ header = NoTenant
                    /\ session[u].tenantId = NoTenant)

\* a token for one tenant, a URL naming another existing tenant, no header:
\* the resolved tenant is the token's
C21_UrlParamIgnored ==
    \E u \in Users, t \in DOMAIN tenants :
        /\ session[u].tenantId \in DOMAIN tenants
        /\ session[u].tenantId # t
        /\ C21_Resolved(u, t, NoTenant) = session[u].tenantId

\* ------------------------------------------------------------------ C23
C23_Order == <<VIEWER, EDITOR, ADMIN, OWNER>>
C23_Level(r) == CHOOSE i \in DOMAIN C23_Order : C23_Order[i] = r

\* C23: hasMinRole and requireMinRole allow exactly when the level of the
\* actual role is at least the level of the required one, with
\* VIEWER < EDITOR < ADMIN < OWNER, and deny when the role is absent; the
\* order is reflexive, transitive and total.
C23_MinRoleIsLevelOrder ==
    /\ \A r \in Role \cup {NoRole}, q \in Role :
          hasMinRole(r, q) <=> (r # NoRole /\ C23_Level(r) >= C23_Level(q))
    /\ \A u \in Users, q \in Role :
          (requireMinRole(u, q) = Ok) <=> hasMinRole(session[u].role, q)
    /\ \A a \in Role : hasMinRole(a, a)
    /\ \A a, b, c \in Role :
          hasMinRole(a, b) /\ hasMinRole(b, c) => hasMinRole(a, c)
    /\ \A a, b \in Role : hasMinRole(a, b) \/ hasMinRole(b, a)

\* a token with role ADMIN passes the gates up to ADMIN and not the OWNER
\* gate, while a token without role passes none
C23_AdminBelowOwner ==
    \E u, v \in Users :
        /\ session[u].role = ADMIN
        /\ requireMinRole(u, ADMIN) = Ok
        /\ requireMinRole(u, OWNER) = Reply("Forbidden", "INSUFFICIENT_ROLE")
        /\ session[v].role = NoRole
        /\ requireMinRole(v, VIEWER) = Reply("Forbidden", "NO_TENANT_ACCESS")

\* ------------------------------------------------------------------ C22
\* a route behind authenticate runs its handler
GetMe(h) == MemGetMe(h) \/ SqlGetMe(h)
Logout(h, refreshToken) == MemLogout(h, refreshToken) \/ SqlLogout(h, refreshToken)

C22_Bearer(h) == h.scheme = "Bearer"
C22_Signed(h) == C22_Bearer(h) /\ h.token.sig = Secret
C22_Valid(h) == C22_Signed(h) /\ now < h.token.exp

\* what authenticate answers to each header
C22_Gate ==
    \A h \in Authorizations :
        /\ (authenticate(h) = Ok) <=> C22_Valid(h)
        /\ ~C22_Valid(h) => authenticate(h).outcome = "Unauthorized"
        /\ (authenticate(h).why = "TOKEN_EXPIRED") <=> (C22_Signed(h) /\ ~C22_Valid(h))

\* when a handler behind it runs
C22_HandlerRun ==
    \A h \in Authorizations :
        /\ (last'.op = "me" /\ GetMe(h)) =>
               /\ C22_Valid(h)
               /\ last'.user = [id |-> h.token.sub,
                                tenantId |-> h.token.tenantId,
                                role |-> h.token.role]
        /\ \A r \in RefreshValues \cup {NoRefresh} :
               (last'.op = "logout" /\ Logout(h, r)) => C22_Valid(h)

\* C22: authenticate passes control to the handler only for a validly signed,
\* unexpired bearer token, attaching exactly that token's claims; a missing,
\* malformed or expired token is answered Unauthorized (the expired one with
\* a code of its own) and the handler is never run.
C22_OnlyValidBearerPasses == []C22_Gate /\ [][C22_HandlerRun]_vars

\* a handler has run with the claims of an OWNER token while another signed
\* token has expired and is answered TOKEN_EXPIRED
C22_ServedAndExpired ==
    /\ last.op = "me"
    /\ last.user.role = OWNER
    /\ \E h \in Authorizations :
          /\ C22_Signed(h)
          /\ now >= h.token.exp
          /\ authenticate(h) = Reply("Unauthorized", "TOKEN_EXPIRED")

\* ------------------------------------------------------------------ C24
\* a create request that has inserted tenant t and not yet answered
C24_BeingCreated(t) ==
    \E p \in Procs : reqs[p] # Idle /\ reqs[p].pc = "create_member" /\ reqs[p].id = t

\* C24: tenant creation is atomic: in every reachable state, a failure of
\* the store between the steps of a create included, every tenant in the
\* store (whose create request is not still running) has a membership of
\* role OWNER whose userId is the tenant's ownerId.
C24_CreatedWithOwner ==
    \A t \in DOMAIN tenants :
        ~C24_BeingCreated(t) =>
            \E m \in DOMAIN tenantMembers :
                /\ tenantMembers[m].tenantId = t
                /\ tenantMembers[m].role = OWNER
                /\ tenantMembers[m].userId = tenants[t].ownerId

\* a create request was answered 500 and its tenant is in the store with
\* no membership at all
C24_HalfCreated ==
    /\ last = Response("createTenant", Reply("InternalError", "store"))
    /\ \E t \in DOMAIN tenants :
          /\ ~C24_BeingCreated(t)
          /\ \A m \in DOMAIN tenantMembers : tenantMembers[m].tenantId # t

\* ------------------------------------------------------------------ C25
CreateTenantReply(name, slug) ==
    IF impl = "mem" THEN MemCreateTenantReply(name, slug) ELSE SqlCreateTenantReply(name, slug)

C25_SlugTaken(slug) == \E t \in DOMAIN tenants : tenants[t].slug = slug

C25_UniqueSlugs ==
    \A t1, t2 \in DOMAIN tenants : tenants[t1].slug = tenants[t2].slug => t1 = t2

\* a create that finds its slug taken when it arrives
C25_ConflictOnArrival ==
    \A g \in {NoSlug, UserSlug} :
        C25_SlugTaken(FinalSlug("n1", g, nextId.tenant))
            => CreateTenantReply("n1", g) = Reply("Conflict", "slug")

\* a create that finds its slug taken when it inserts
C25_ConflictOnInsert ==
    \A p \in Procs :
        (/\ reqs[p] # Idle
         /\ reqs[p].pc = "create_tenant"
         /\ C25_SlugTaken(reqs[p].row.slug)
         /\ SqlCreateInsertTenant(p))
            => /\ last' = Response("createTenant", Reply("Conflict", "slug"))
               /\ UNCHANGED <<tenants, tenantMembers>>

\* C25: no two tenants ever have the same slug, under any interleaving of
\* create requests, and a create with a slug that already exists is rejected
\* with Conflict and creates neither a tenant nor a membership.
C25_SlugUniqueAndConflict ==
    /\ []C25_UniqueSlugs
    /\ []C25_ConflictOnArrival
    /\ [][C25_ConflictOnInsert]_vars

\* two creates with one slug have both passed the look-up; the first has
\* inserted its tenant and the second was answered 500 by the constraint
C25_LostRace ==
    /\ last = Response("createTenant", Reply("InternalError", "constraint"))
    /\ C25_SlugTaken(UserSlug)
    /\ Cardinality(DOMAIN tenants) = 1
    /\ \A m \in DOMAIN tenantMembers : tenantMembers[m].tenantId \in DOMAIN tenants

\* ------------------------------------------------------------------ C26
SwitchTenantReply(u, t) ==
    IF impl = "mem" THEN MemSwitchTenantReply(u, t) ELSE SqlSwitchTenantReply(u, t)
SwitchTenant(u, t) == MemSwitchTenant(u, t) \/ SqlSwitchTenant(u, t)

\* the switch is granted on the store alone
C26_GrantedOnStore ==
    \A u \in Users, t \in TenantIds :
        /\ SwitchTenantReply(u, t) = Ok => ActiveMemberIds(tenantMembers, t, u) # {}
        /\ (/\ ActiveMemberIds(tenantMembers, t, u) # {}
            /\ t \in DOMAIN tenants
            /\ tenants[t].status = "active") => SwitchTenantReply(u, t) = Ok

\* the token it issues carries the tenant and the role of that membership
C26_IssuedFromStore ==
    \A u \in Users, t \in TenantIds :
        (last'.op = "switchTenant" /\ SwitchTenant(u, t)) =>
            \E m \in ActiveMemberIds(tenantMembers, t, u) :
                /\ session'[u].tenantId = tenantMembers[m].tenantId
                /\ session'[u].tenantId = t
                /\ session'[u].role = tenantMembers[m].role

\* C26: a tenant switch issues a token only if the store holds a
\* non-suspended membership of the requesting user in the target tenant, the
\* issued token's tenantId and role are that membership's, and the tenant and
\* role claims of the presented token have no influence on the outcome.
C26_SwitchReadsStore == []C26_GrantedOnStore /\ [][C26_IssuedFromStore]_vars

\* one user presents a token whose role is not the role of the membership
\* any more and is granted the switch; another presents a token for a tenant
\* it has no membership in and is refused
C26_StaleTokens ==
    \E u, v \in Users, t \in DOMAIN tenants :
        /\ session[u].tenantId = t
        /\ ActiveMemberIds(tenantMembers, t, u) # {}
        /\ session[u].role # CurrentMembership(t, u).role
        /\ SwitchTenantReply(u, t) = Ok
        /\ session[v].tenantId = t
        /\ ActiveMemberIds(tenantMembers, t, v) = {}
        /\ SwitchTenantReply(v, t) # Ok

\* ------------------------------------------------------------------ C27
RegisterReply(email, pw, name) ==
    IF impl = "mem" THEN MemRegisterReply(email, pw, name) ELSE SqlRegisterReply(email, pw, name)

C27_Registered(email) ==
    \E a \in DOMAIN users : toLowerCase(users[a].email) = toLowerCase(email)

\* C27: user e-mail addresses are unique ignoring case, and a registration
\* with an address that differs from a registered one only in case (or not
\* at all) is rejected.
C27_EmailsUniqueIgnoringCase ==
    /\ \A a, b \in DOMAIN users :
          toLowerCase(users[a].email) = toLowerCase(users[b].email) => a = b
    /\ \A e \in RegEmails :
          C27_Registered(e) => RegisterReply(e, "password1", "n1") # Ok

\* two accounts with the address b@x, no registration under way
C27_TwoAccountsOneAddress ==
    /\ Quiet
    /\ \E a, b \in DOMAIN users :
          a # b /\ users[a].email = "b@x" /\ users[b].email = "b@x"

\* ------------------------------------------------------------------ C28
\* a refresh that is answered with an access token
RefreshReply(refreshToken) ==
    IF impl = "mem" THEN MemRefreshReply(refreshToken) ELSE SqlRefreshReply(refreshToken)
LoginStep(email, pw) == MemLogin(email, pw) \/ SqlLogin(email, pw)

\* the owner of refresh token r logs out presenting it: from then on a
\* refresh with r yields nothing
C28_AfterLogout ==
    \A h \in LoginHeaders, r \in RefreshValues :
        (/\ last'.op = "logout"
         /\ h.token.sub = r.sub
         /\ Logout(h, r)) => RefreshReply(r)' # Ok

\* a login has handed out a refresh token: a refresh with it succeeds
C28_AfterLogin ==
    \A e \in RegEmails, pw \in Passwords :
        (last'.op = "login" /\ LoginStep(e, pw)) =>
            \E r \in RefreshValues : RefreshReply(r)' = Ok

\* C28: after a logout presenting refresh token R no later refresh with R
\* yields an access token, while before the logout and before expiry a
\* refresh with R succeeds.
C28_LogoutRevokes == [][C28_AfterLogout /\ C28_AfterLogin]_vars

\* a user has logged out, one row of refresh_tokens is revoked, and a
\* refresh with the token of that row is still answered with an access token
C28_RefreshAfterLogout ==
    /\ last = Response("logout", Ok)
    /\ \E k \in DOMAIN refreshTokens, r \in RefreshValues :
          /\ refreshTokens[k].revoked
          /\ r = generateRefreshToken(refreshTokens[k].userId, k)
          /\ RefreshReply(r) = Ok

\* ------------------------------------------------------------------ C29
\* PUT /:memberId/suspend exists in the in-memory build only
SuspendReply(u, h, m) ==
    IF impl = "mem" THEN MemSuspendReply(u, h, m) ELSE Reply("NotFound", "route")

C29_NonMember(u, t) == AnyMemberIds(tenantMembers, t, u) = {}

\* C29: a non-member of tenant T learns nothing about T's memberships: to a
\* user with no membership in T, every member-management request on T is
\* answered the same whatever the member id it names is in T (a membership,
\* a suspended membership, or none).
C29_NonMemberLearnsNothing ==
    \A u \in Users, t \in DOMAIN tenants :
        C29_NonMember(u, t) =>
            \A m1, m2 \in MemberIds :
                /\ \A r \in Role : UpdateRoleReply(u, t, m1, r) = UpdateRoleReply(u, t, m2, r)
                /\ RemoveReply(u, t, m1) = RemoveReply(u, t, m2)
                /\ SuspendReply(u, t, m1) = SuspendReply(u, t, m2)

\* a user outside the tenant asks to remove two member ids and is told
\* Forbidden for the one that is a membership and NotFound for the other
C29_ExistenceTold ==
    \E u \in Users, t \in DOMAIN tenants, m1, m2 \in MemberIds :
        /\ C29_NonMember(u, t)
        /\ session[u].role = NoRole
        /\ m1 \in DOMAIN tenantMembers
        /\ tenantMembers[m1].tenantId = t
        /\ m2 \notin DOMAIN tenantMembers
        /\ RemoveReply(u, t, m1) = Reply("Forbidden", "member")
        /\ RemoveReply(u, t, m2) = Reply("NotFound", "member")

\* ------------------------------------------------------------------ C30
\* every membership but m is left as it is
C30_OthersKept(m) ==
    \A x \in DOMAIN tenantMembers \ {m} :
        x \in DOMAIN tenantMembers' /\ tenantMembers'[x] = tenantMembers[x]

\* a role change, suspension or removal touches the named membership only,
\* and that one lies in the resolved tenant
C30_WritesInScope ==
    \A u \in Users, h \in Headers, m \in MemberIds :
        ((\E r \in Role : UpdateRole(u, h, m, r)) \/ Remove(u, h, m) \/ MemSuspend(u, h, m))
            => /\ m \in DOMAIN tenantMembers
               /\ tenantMembers[m].tenantId = ReqTenant(u, h)
               /\ C30_OthersKept(m)

\* a member id of another tenant is answered like an id that does not exist
C30_ForeignLikeMissing ==
    \A u \in Users, h \in Headers, m1, m2 \in MemberIds :
        (/\ ReqTenant(u, h) # NoTenant
         /\ m1 \in DOMAIN tenantMembers
         /\ tenantMembers[m1].tenantId # ReqTenant(u, h)
         /\ m2 \notin DOMAIN tenantMembers)
            => /\ \A r \in Role : UpdateRoleReply(u, h, m1, r) = UpdateRoleReply(u, h, m2, r)
               /\ RemoveReply(u, h, m1) = RemoveReply(u, h, m2)
               /\ SuspendReply(u, h, m1) = SuspendReply(u, h, m2)

\* C30: role change, suspend and remove never modify or delete a membership
\* whose tenantId differs from the request's resolved tenant, and a member
\* id that belongs to another tenant is answered NotFound exactly like an id
\* that does not exist.
C30_MemberIdsAreTenantScoped == []C30_ForeignLikeMissing /\ [][C30_WritesInScope]_vars

\* the owner of one tenant names a member of the other tenant and is told
\* NotFound, while the owner of that other tenant may remove that member
C30_ForeignMemberNotFound ==
    \E t1, t2 \in DOMAIN tenants, m \in DOMAIN tenantMembers :
        /\ t1 # t2
        /\ tenantMembers[m].tenantId = t2
        /\ tenantMembers[m].role # OWNER
        /\ ReqTenant(tenants[t1].ownerId, t1) = t1
        /\ RemoveReply(tenants[t1].ownerId, t1, m) = Reply("NotFound", "member")
        /\ UpdateRoleReply(tenants[t1].ownerId, t1, m, VIEWER) = Reply("NotFound", "member")
        /\ RemoveReply(tenants[t2].ownerId, t2, m) = Ok

\* the first precondition of accept that fails for user u and token k, in
\* the order the handler tests them
C31_Cause(u, k) ==
    IF k \notin DOMAIN invitations THEN "unknown"
    ELSE IF invitations[k].status # "pending" THEN "not_pending"
    ELSE IF now > invitations[k].expiresAt THEN "expired"
    ELSE IF toLowerCase(UserEmail[u]) # toLowerCase(invitations[k].email) THEN "mismatch"
    ELSE IF AnyMemberIds(tenantMembers, invitations[k].tenantId, u) # {} THEN "member"
    ELSE "none"

\* C31: each failed precondition of accept is answered with an error kind of
\* its own: an unknown token is NotFound, an e-mail mismatch Forbidden, an
\* existing membership Conflict, and two requests that fail for different
\* causes never get the same error code.
C31_OwnErrorKinds ==
    \A u \in Users, k \in InvIds :
        /\ C31_Cause(u, k) = "unknown" => AcceptReply(u, k).outcome = "NotFound"
        /\ C31_Cause(u, k) = "mismatch" => AcceptReply(u, k).outcome = "Forbidden"
        /\ C31_Cause(u, k) = "member" => AcceptReply(u, k).outcome = "Conflict"
        /\ \A v \in Users, j \in InvIds :
               (/\ C31_Cause(u, k) \notin {"none", C31_Cause(v, j)}
                /\ C31_Cause(v, j) # "none") =>
                   AcceptReply(u, k).outcome # AcceptReply(v, j).outcome

\* an accepted invitation and one past its expiry are both stored, and the
\* user who is already a member holds a valid invitation
C31_SameCode ==
    /\ Quiet
    /\ \E u \in Users, k, j \in InvIds :
        /\ C31_Cause(u, k) = "not_pending"
        /\ C31_Cause(u, j) \in {"expired", "member"}
        /\ AcceptReply(u, k).outcome = AcceptReply(u, j).outcome

\* Rate limiting: requests of two client keys arrive at any instant, the
\* cleanup timer fires at any moment.
NextLimit ==
    \/ \E key \in Keys : rateLimit(key)
    \/ cleanup
    \/ DateTick

SpecLimit == Init /\ [][NextLimit]_vars

RECURSIVE C32_Sum(_, _)
C32_Sum(f, S) ==
    IF S = {} THEN 0
    ELSE LET t == Min(S) IN f[t] + C32_Sum(f, S \ {t})

\* the instants of the window the entry of key stands for
C32_Window(key) ==
    {t \in 0..MaxDateNow : /\ t >= requestCounts[key].resetTime - WindowMs
                           /\ t <= requestCounts[key].resetTime}

C32_Open(key) ==
    key \in DOMAIN requestCounts /\ ~(dateNow > requestCounts[key].resetTime)

\* the requests of key that passed the limiter in its window
C32_AtMostMax ==
    \A key \in DOMAIN requestCounts :
        C32_Sum(reached[key], C32_Window(key)) <= MaxRequests

\* a request of key was counted in this step
C32_Counted(key) ==
    /\ key \in DOMAIN requestCounts'
    /\ key \in DOMAIN requestCounts => requestCounts'[key] # requestCounts[key]

C32_FurtherRefused ==
    \A key \in Keys :
        (C32_Counted(key) /\ C32_Open(key) /\ requestCounts[key].count >= MaxRequests) =>
            /\ last'.outcome = "TooManyRequests"
            /\ reached' = reached

C32_StartsAgain ==
    \A key \in Keys :
        (/\ C32_Counted(key)
         /\ key \in DOMAIN requestCounts
         /\ dateNow > requestCounts[key].resetTime) =>
            /\ requestCounts'[key].count = 1
            /\ requestCounts'[key].resetTime = dateNow + WindowMs
            /\ last'.outcome = "ok"

\* C32: for each client key at most maxRequests requests of one window pass
\* the limiter; every further request in that window is answered 429 and is
\* not handed to a handler, and the first request after the window's reset
\* time has passed is counted from zero again and passes.
C32_WindowLimit ==
    []C32_AtMostMax /\ [][C32_FurtherRefused /\ C32_StartsAgain]_vars

\* a key is refused in a window after requests of an earlier window of that
\* key passed
C32_RefusedInLaterWindow ==
    /\ last.op = "rateLimit"
    /\ \E key \in DOMAIN requestCounts :
        /\ requestCounts[key].count > MaxRequests
        /\ C32_Sum(reached[key], C32_Window(key)) = MaxRequests
        /\ \E t \in 0..MaxDateNow :
            /\ t < requestCounts[key].resetTime - WindowMs
            /\ reached[key][t] > 0

GetNoteReply(u, h, n) ==
    IF impl = "mem" THEN MemGetNoteReply(u, h, n) ELSE SqlGetNoteReply(u, h, n)

UpdateNoteReply(u, h, n, title) ==
    IF impl = "mem" THEN MemUpdateNoteReply(u, h, n, title) ELSE SqlUpdateNoteReply(u, h, n, title)

RestoreNoteReply(u, h, n) ==
    IF impl = "mem" THEN MemRestoreNoteReply(u, h, n) ELSE SqlRestoreNoteReply(u, h, n)

\* the notes a list request returns, with or without ?includeDeleted
Listed(u, h, includeDeleted) ==
    IF impl = "mem"
    THEN IF MemListNotesReply(u, h) = Ok THEN MemListed(u, h, includeDeleted) ELSE {}
    ELSE IF SqlListNotesReply(u, h) = Ok THEN SqlListed(u, h) ELSE {}

\* no request gets note n from get or list, and none may update it
C33_Hidden(n) ==
    \A u \in Users, h \in Headers :
        /\ GetNoteReply(u, h, n) # Ok
        /\ \A includeDeleted \in BOOLEAN : n \notin Listed(u, h, includeDeleted)
        /\ \A title \in Titles : UpdateNoteReply(u, h, n, title) # Ok

\* u asks as ADMIN or OWNER of tenant t
C33_Admin(u, h, t) ==
    /\ ReqTenant(u, h) = t
    /\ IF impl = "mem" THEN checkTenantAccess(t, u) \in {OWNER, ADMIN}
       ELSE requireMinRole(u, ADMIN) = Ok

C33_Deleted(n) == n \notin DOMAIN notes' \/ notes'[n] # notes[n]

C33_AfterDelete ==
    last'.op = "deleteNote" =>
        \A n \in DOMAIN notes :
            C33_Deleted(n) =>
                /\ C33_Hidden(n)'
                /\ \A u \in Users, h \in Headers :
                       C33_Admin(u, h, notes[n].tenantId)' => RestoreNoteReply(u, h, n)' = Ok

C33_AfterRestore ==
    last'.op = "restoreNote" =>
        \A n \in DOMAIN notes :
            notes'[n] # notes[n] =>
                /\ notes'[n] = [notes[n] EXCEPT !.isDeleted = FALSE]
                /\ \E u \in Users, h \in Headers : GetNoteReply(u, h, n)' = Ok

\* C33: once a note has been deleted no get or list request returns it and
\* no update is accepted for it, every ADMIN or OWNER of its tenant may
\* restore it, and the restore makes it visible again with the title and the
\* content it had.
C33_SoftDeleteWithRestore == [][C33_AfterDelete /\ C33_AfterRestore]_vars

\* a deleted note is stored and an ADMIN or OWNER of its tenant is refused
\* the restore
C33_NoRestore ==
    /\ Quiet
    /\ \E n \in DOMAIN notes :
        /\ notes[n].isDeleted
        /\ \E u \in Users, h \in Headers :
            /\ C33_Admin(u, h, notes[n].tenantId)
            /\ RestoreNoteReply(u, h, n) # Ok

\* a token generateRefreshToken may have issued to a registered user by now:
\* type 'refresh', signed with the secret, expiring RefreshTtl after issue
C34_Issued(token) ==
    /\ token.type = "refresh"
    /\ token.sig = Secret
    /\ token.sub \in DOMAIN users
    /\ token.exp <= now + RefreshTtl

\* C34: authenticate never accepts a token issued by generateRefreshToken
\* as a bearer access token: every request that presents one is answered
\* 401.
C34_RefreshTokenRejected ==
    \A h \in Authorizations :
        (h.scheme = "Bearer" /\ C34_Issued(h.token)) =>
            authenticate(h).outcome = "Unauthorized"

\* a registered user's unexpired refresh token, sent as the bearer token of
\* GET /auth/me, passes authenticate and the handler answers 200
C34_RefreshTokenServed ==
    /\ Quiet
    /\ \E h \in Authorizations :
        /\ h.scheme = "Bearer"
        /\ C34_Issued(h.token)
        /\ authenticate(h) = Ok
        /\ (IF impl = "mem" THEN MemGetMeReply(h) ELSE SqlGetMeReply(h)) = Ok

\* The browser: a user registers, the page logs in, asks for the profile or
\* logs in again with any password, and time passes.
NextClient ==
    \/ Quiet /\ \E e \in {"a@x"} : MemRegisterBegin(1, e, "password1", "n1")
    \/ MemRegisterStore(1)
    \/ Quiet /\ \E e \in {"a@x"} : SqlRegisterBegin(1, e, "password1", "n1")
    \/ SqlRegisterStep(1)
    \/ Quiet /\ \E request \in ApiRequests : ApiSend(request)
    \/ ApiLoginOk
    \/ ApiMeOk
    \/ ApiError
    \/ ApiRefreshRetry
    \/ ApiRefreshFailed
    \/ TokenTick

SpecClient == Init /\ [][NextClient]_vars

\* C35: the response interceptor refreshes the token and sends the request
\* again at most once per original request; a request answered 401 again
\* after a successful refresh is handed to the caller.
C35_OneRetry == client.refreshes <= 1

\* the request has been refreshed and sent again MaxRefreshes times and is
\* answered 401 once more, with the refresh token still stored
C35_StillRetrying ==
    /\ client.pc = "sent"
    /\ client.refreshes = MaxRefreshes
    /\ ApiReply(client.request).outcome = "Unauthorized"
    /\ localStorage.refreshToken # NoRefresh

\* the invitations stored as pending for tenant t and address e are all past
\* their expiry, and there is one
C36_OnlyExpiredPending(t, e) ==
    /\ PendingInvites(t, toLowerCase(e)) # {}
    /\ \A k \in PendingInvites(t, toLowerCase(e)) : now > invitations[k].expiresAt

\* C36: an invitation past its expiresAt never blocks a new invitation for
\* the same tenant and address, whether or not anyone tried to accept it:
\* the invite request is not refused as a duplicate of a pending invitation.
C36_ExpiredNeverBlocks ==
    \A u \in Users, h \in Headers, e \in Emails, r \in {ADMIN, EDITOR, VIEWER} :
        C36_OnlyExpiredPending(ReqTenant(u, h), e) =>
            InviteReply(u, h, e, r) # Reply("BadRequest", "pending")

\* the owner invites an address again whose only invitation is past its
\* expiry and was never presented, and is told that one is pending
C36_BlockedByExpired ==
    /\ Quiet
    /\ \E u \in Users, h \in Headers :
        /\ C36_OnlyExpiredPending(ReqTenant(u, h), "b@x")
        /\ InviteReply(u, h, "b@x", EDITOR) = Reply("BadRequest", "pending")

\* u is an active member of m's tenant who ranks above m and is not m's user
C37_Higher(u, m) ==
    LET t == tenantMembers[m].tenantId IN
    /\ tenantMembers[m].userId # u
    /\ ActiveMemberIds(tenantMembers, t, u) # {}
    /\ RoleHierarchy[CurrentMembership(t, u).role] > RoleHierarchy[tenantMembers[m].role]

\* C37: suspension is one-way: in every step a suspended membership stays
\* suspended or is removed, and it is removed only by the request of a
\* member who ranks above it.
C37_SuspendedUntilRemoved ==
    [][\A m \in DOMAIN tenantMembers :
          tenantMembers[m].isSuspended =>
              IF m \in DOMAIN tenantMembers' THEN tenantMembers'[m].isSuspended
              ELSE /\ last'.op = "remove"
                   /\ \E u \in Users, h \in Headers : Remove(u, h, m) /\ C37_Higher(u, m)]_vars

\* a membership has been suspended and a member ranking above it may remove it
C37_SuspendedRemovable ==
    /\ Quiet
    /\ \E m \in DOMAIN tenantMembers :
        /\ tenantMembers[m].isSuspended
        /\ \E u \in Users, h \in Headers : RemoveReply(u, h, m) = Ok /\ C37_Higher(u, m)

DeleteNoteReply(u, h, n) ==
    IF impl = "mem" THEN MemDeleteNoteReply(u, h, n) ELSE SqlDeleteNoteReply(u, h, n)

\* tenant t has been deleted: its status is deleted, or its row is gone
C38_Deleted(t) ==
    IF t \in DOMAIN tenants THEN tenants[t].status = "deleted" ELSE t < nextId.tenant

\* C38: once a tenant is deleted every request scoped to it is rejected:
\* invite, role change, suspend, remove, note create, update and delete
\* sent in its context, and accept for one of its invitations.
C38_DeletedTenantFrozen ==
    \A u \in Users, h \in Headers :
        C38_Deleted(ReqTenant(u, h)) =>
            /\ \A e \in Emails, r \in Role : InviteReply(u, h, e, r) # Ok
            /\ \A m \in MemberIds :
                   /\ \A r \in Role : UpdateRoleReply(u, h, m, r) # Ok
                   /\ SuspendReply(u, h, m) # Ok
                   /\ RemoveReply(u, h, m) # Ok
            /\ \A n \in NoteIds :
                   /\ \A title \in Titles : UpdateNoteReply(u, h, n, title) # Ok
                   /\ DeleteNoteReply(u, h, n) # Ok
            /\ \A title \in Titles : CreateNoteReply(u, h, title) # Ok
            /\ \A v \in Users, k \in DOMAIN invitations :
                   invitations[k].tenantId = ReqTenant(u, h) => AcceptReply(v, k) # Ok

\* the owner of a deleted tenant is still allowed to invite to it
C38_InviteToDeleted ==
    /\ Quiet
    /\ \E u \in Users, h \in Headers :
        /\ ReqTenant(u, h) \in DOMAIN tenants
        /\ tenants[ReqTenant(u, h)].status = "deleted"
        /\ InviteReply(u, h, "b@x", ADMIN) = Ok
        /\ CreateNoteReply(u, h, "t1") = Ok

\* Sessions: tenants are founded, b@x is invited and joins, users switch
\* tenant, rename the tenant, and their access tokens are refreshed.
MemSessionRoutes ==
    \/ \E u \in TwoFounders : MemCreateTenant(u, "n1", NoSlug)
    \/ \E u \in Users, t \in TenantIds : MemSwitchTenant(u, t)
    \/ \E u \in TwoFounders, h \in Headers : MemInvite(u, h, "b@x", ADMIN)
    \/ \E k \in InvIds : MemAccept("u2", k)
    \/ \E u \in Users, t \in TenantIds : MemUpdateTenant(u, t, "n2")

SqlSessionRoutes ==
    \/ \E u \in TwoFounders : SqlCreateBegin(1, u, "n1", NoSlug)
    \/ \E u \in Users, t \in TenantIds : SqlSwitchTenant(u, t)
    \/ \E u \in TwoFounders, h \in Headers : SqlInvite(u, h, "b@x", ADMIN)
    \/ \E k \in InvIds : SqlAcceptBegin(1, "u2", k)
    \/ \E u \in Users, t \in TenantIds : SqlUpdateTenant(u, t, "n2")
    \/ \E u \in Users : SqlRefreshSession(u)

NextSession ==
    \/ Quiet /\ MemSessionRoutes
    \/ Quiet /\ SqlSessionRoutes
    \/ SqlAcceptStep(1)
    \/ SqlCreateStep(1)

SpecSession == Init /\ [][NextSession]_vars

\* C39: a refresh keeps the tenant context of the session: every role gate
\* the user's token passes before the refresh is passed by the refreshed
\* token as well.
C39_RefreshKeepsContext ==
    [][last'.op = "refresh" =>
          \A u \in Users, minRole \in Role :
              requireMinRole(u, minRole) = Ok => requireMinRole(u, minRole)' = Ok]_vars

\* after a refresh an active member of a tenant holds a token without a role
\* and is refused by the lowest role gate
C39_ContextLost ==
    /\ last.op = "refresh"
    /\ \E u \in Users :
        /\ \E t \in DOMAIN tenants : ActiveMemberIds(tenantMembers, t, u) # {}
        /\ requireMinRole(u, VIEWER) = Reply("Forbidden", "NO_TENANT_ACCESS")
====
